---------------------------- MODULE Spec2Model ----------------------------
(***************************************************************************)
(* Model of the Deye Cloud integration: the API client                     *)
(* (custom_components/deye_cloud/api.py) and the polling coordinator       *)
(* (custom_components/deye_cloud/coordinator.py).                          *)
(*                                                                         *)
(* JSON values are tagged records: [t |-> "null"], [t |-> "num", v |-> n], *)
(* [t |-> "str", v |-> s], [t |-> "list", v |-> <<...>>] and               *)
(* [t |-> "obj", v |-> f] with f a function from key strings to values.    *)
(***************************************************************************)
EXTENDS Integers, Sequences, FiniteSets, TLC

(***************************************************************************)
(* JSON values and the Python operations the code applies to them          *)
(***************************************************************************)
Null == [t |-> "null"]

Num(n) == [t |-> "num", v |-> n]

Str(s) == [t |-> "str", v |-> s]

List(s) == [t |-> "list", v |-> s]

Obj(f) == [t |-> "obj", v |-> f]

Bool(b) == [t |-> "bool", v |-> b]

EmptyObj == Obj(<<>>)

EmptyList == List(<<>>)

\* isinstance(x, dict)
IsDict(x) == x.t = "obj"

\* isinstance(x, str)
IsStr(x) == x.t = "str"

\* k in d
HasKey(d, k) == k \in DOMAIN d.v

\* d.get(k, dflt)
GetD(d, k, dflt) == IF HasKey(d, k) THEN d.v[k] ELSE dflt

\* d.get(k)
Get(d, k) == GetD(d, k, Null)

\* bool(x)
Truthy(x) ==
    CASE x.t = "null" -> FALSE
      [] x.t = "bool" -> x.v
      [] x.t = "num" -> x.v # 0
      [] x.t = "str" -> x.v # ""
      [] x.t = "list" -> Len(x.v) > 0
      [] x.t = "obj" -> DOMAIN x.v # {}

\* a or b
PyOr(a, b) == IF Truthy(a) THEN a ELSE b

\* x == {}
IsEmptyDict(x) == IsDict(x) /\ DOMAIN x.v = {}

(***************************************************************************)
(* Outcomes of a call: a returned value or a raised exception              *)
(***************************************************************************)
Return(val) == [kind |-> "return", exc |-> "none", val |-> val]

Raise(exc, msg) == [kind |-> "raise", exc |-> exc, val |-> msg]

Pending == [kind |-> "pending", exc |-> "none", val |-> Null]

\* class DeyeCloudAuthError(DeyeCloudApiError): an except clause for the
\* base class catches both
IsApiError(out) ==
    out.kind = "raise" /\ out.exc \in {"DeyeCloudApiError", "DeyeCloudAuthError"}

IsAuthError(out) == out.kind = "raise" /\ out.exc = "DeyeCloudAuthError"

(***************************************************************************)
(* DeyeCloudClient._request: the handling of a received response body      *)
(***************************************************************************)
\* code not in {0, 1000000, "0", "1000000"}
SuccessCodes == {Num(0), Num(1000000), Str("0"), Str("1000000")}

\* code in {1001, 1002, 1003, "1001", "1002", "1003"}
AuthCodes ==
    {Num(1001), Num(1002), Num(1003), Str("1001"), Str("1002"), Str("1003")}

\* payload = result.get("data", {}); return payload if payload != {} else result
PayloadOf(result) ==
    LET payload == GetD(result, "data", EmptyObj)
    IN  IF ~IsEmptyDict(payload) THEN payload ELSE result

ErrorOfNoAuth(result) ==
    Raise("DeyeCloudApiError", GetD(result, "msg", Str("Unknown error")))

ErrorOf(result) ==
    LET code == Get(result, "code")
        error_msg == GetD(result, "msg", Str("Unknown error"))
    IN  IF code \in AuthCodes
        THEN Raise("DeyeCloudAuthError", error_msg)
        ELSE Raise("DeyeCloudApiError", error_msg)

ProcessResponseRootRaises(result) ==
    IF IsDict(result) /\ HasKey(result, "code")
    THEN IF Get(result, "code") \notin SuccessCodes
         THEN ErrorOf(result)
         ELSE Return(PayloadOf(result))
    ELSE IF IsDict(result)
         THEN Return(result)
         ELSE Raise("DeyeCloudApiError", Str("Unexpected response shape"))

ProcessResponse(result) ==
    IF IsDict(result) /\ HasKey(result, "code")
    THEN IF Get(result, "code") \notin SuccessCodes
         THEN ErrorOf(result)
         ELSE Return(PayloadOf(result))
    ELSE IF IsDict(result)
         THEN Return(result)
         ELSE Return(EmptyObj)

(***************************************************************************)
(* DeyeCloudClient.obtain_token: the handling of a received token response *)
(***************************************************************************)
\* expires_in = 60 * 24 * 60 * 60
ExpiresIn == 5184000

\* self._token_expiry = time.time() + expires_in - 86400
ExpiryMargin == 86400

ExtractTokenNoDataString(result) ==
    IF IsDict(result)
    THEN LET token == PyOr(Get(result, "accessToken"), Get(result, "token"))
         IN  IF ~Truthy(token) /\ HasKey(result, "data")
             THEN LET data == Get(result, "data")
                  IN  IF IsDict(data)
                      THEN PyOr(Get(data, "access_token"),
                                PyOr(Get(data, "accessToken"), Get(data, "token")))
                      ELSE token
             ELSE token
    ELSE Null

ExtractToken(result) ==
    IF IsDict(result)
    THEN LET token == PyOr(Get(result, "accessToken"), Get(result, "token"))
         IN  IF ~Truthy(token) /\ HasKey(result, "data")
             THEN LET data == Get(result, "data")
                  IN  IF IsDict(data)
                      THEN PyOr(Get(data, "access_token"),
                                PyOr(Get(data, "accessToken"), Get(data, "token")))
                      ELSE IF IsStr(data) THEN data ELSE token
             ELSE token
    ELSE Null

\* The client's token state after the response `result` was received at time
\* t, and the outcome of obtain_token: the token is stored before it is tested.
\* self._token_expiry = time.time() + expires_in + 86400
ObtainTokenEffectLate(result, old_expiry, t) ==
    LET token == ExtractToken(result)
    IN  IF ~Truthy(token)
        THEN [access_token |-> token, token_expiry |-> old_expiry,
              out |-> Raise("DeyeCloudAuthError", Str("no token in response"))]
        ELSE [access_token |-> token,
              token_expiry |-> t + ExpiresIn + ExpiryMargin,
              out |-> Return(token)]

ObtainTokenEffect(result, old_expiry, t) ==
    LET token == ExtractToken(result)
    IN  IF ~Truthy(token)
        THEN [access_token |-> token, token_expiry |-> old_expiry,
              out |-> Raise("DeyeCloudAuthError", Str("no token in response"))]
        ELSE [access_token |-> token,
              token_expiry |-> t + ExpiresIn - ExpiryMargin,
              out |-> Return(token)]

(***************************************************************************)
(* State                                                                   *)
(***************************************************************************)
VARIABLES
    access_token,    \* DeyeCloudClient._access_token (Null: None)
    token_expiry,    \* DeyeCloudClient._token_expiry, epoch seconds
    now,             \* time.time()
    response_json,   \* a response body handed to _request's parsing
    request_out,     \* what _request makes of response_json
    token_json,      \* a response body handed to obtain_token's parsing
    token_out,       \* what obtain_token makes of token_json
    session,         \* DeyeCloudClient._session: "none", "own" or "external"
    close_session,   \* DeyeCloudClient._close_session
    resources,       \* the sessions the client has had, with what close() did
    calls,           \* the calls callers have made on the client, by caller
    stations,        \* DeyeCoordinator.stations: list of station ids
    devices,         \* DeyeCoordinator.devices: list of device serials
    data,            \* DeyeCoordinator.data: [stations |-> ..., devices |-> ...]
    last_update_success, \* DataUpdateCoordinator.last_update_success
    phase,           \* where the coordinator's own coroutine is
    startup,         \* async_config_entry_first_refresh is running
    batch_i,         \* i of the loop of _update_devices_latest
    main_call,       \* the client call the coordinator's coroutine awaits
    tasks,           \* the calls of the _fetch_station_latest tasks of gather
    batch_outs,      \* history: the outcomes of this cycle's batch fetches
    before,          \* history: the cache when the current fan-out began
    discovery,       \* history: "none", "ok" or "failed"
    refreshed,       \* history: a refresh cycle has begun
    fetch_failures,  \* history: the fetches of this cycle that raised
    base_url_in,     \* a base_url handed to DeyeCloudClient.__init__
    base_url,        \* DeyeCloudClient.base_url
    discover_in,     \* a stations_payload handed to _discover_topology
    topology,        \* what _discover_topology makes of discover_in
    merge_in,        \* a cache and a latest-data payload to merge into it
    merge_out,       \* the caches the merges of merge_in give
    flow_in,         \* a submission to the config flow and the vendor's answer
    flow_out         \* what async_step_user makes of flow_in

clientVars == <<access_token, token_expiry, now>>

sessionVars == <<session, close_session, resources>>

unitVars == <<base_url_in, base_url, discover_in, topology,
              merge_in, merge_out, flow_in, flow_out>>

pureVars == <<response_json, request_out, token_json, token_out, unitVars>>

coordVars == <<stations, devices, data, last_update_success, phase, startup,
               batch_i, main_call, tasks, batch_outs, before, discovery,
               refreshed, fetch_failures>>

vars == <<access_token, token_expiry, now,
          response_json, request_out, token_json, token_out,
          session, close_session, resources, calls,
          stations, devices, data, last_update_success, phase, startup,
          batch_i, main_call, tasks, batch_outs, before, discovery, refreshed,
          fetch_failures, unitVars>>

\* A field a body does not have
Absent == [t |-> "absent"]

\* The object with the fields of rec that are not Absent
StripAbsent(rec) == Obj([k \in {j \in DOMAIN rec : rec[j] # Absent} |-> rec[k]])

\* No pure function of the other specifications is under test
UnitIdle ==
    /\ base_url_in = Null
    /\ base_url = Pending
    /\ discover_in = Null
    /\ topology = Pending
    /\ merge_in = Null
    /\ merge_out = Pending
    /\ flow_in = Null
    /\ flow_out = Pending

PureIdle ==
    /\ UnitIdle
    /\ response_json = Null
    /\ request_out = Pending
    /\ token_json = Null
    /\ token_out = Pending

\* A call a caller has not made yet: what it was called with, where it is,
\* and the history of its token and endpoint requests
IdleCall ==
    [op |-> "none", pc |-> "idle", require_auth |-> FALSE, stale |-> FALSE,
     nauth |-> 0, auth_done |-> FALSE, nsent |-> 0, bearer |-> Null,
     net |-> "none", out |-> Pending, serials |-> 0]

EmptyCache == [stations |-> <<>>, devices |-> <<>>]

\* DeyeCoordinator.__init__
CoordIdle ==
    /\ stations = <<>>
    /\ devices = <<>>
    /\ data = EmptyCache
    /\ last_update_success = TRUE
    /\ phase = "uninit"
    /\ startup = FALSE
    /\ batch_i = 0
    /\ main_call = IdleCall
    /\ tasks = <<>>
    /\ batch_outs = <<>>
    /\ before = EmptyCache
    /\ discovery = "none"
    /\ refreshed = FALSE
    /\ fetch_failures = 0

ClientIdle ==
    /\ access_token = Null
    /\ token_expiry = 0
    /\ now = 0
    /\ session = "none"
    /\ close_session = FALSE
    /\ resources = <<>>
    /\ calls = <<>>

(***************************************************************************)
(* RequestSpec: _request applied to every response body of a bounded set   *)
(***************************************************************************)
CodeValues ==
    {Num(0), Num(1000000), Str("0"), Str("1000000"),
     Num(1001), Num(1002), Num(1003), Str("1001"), Str("1002"), Str("1003"),
     Num(2101), Str("2101"), Num(1), Num(1000), Str("error"), Str(""), Null}

DataValues ==
    {EmptyObj, Null, EmptyList,
     Obj([stationList |-> List(<<Str("S1")>>)]), Obj([code |-> Num(7)]),
     List(<<Str("S1")>>), Str("x"), Str(""), Num(0)}

RequestBodies ==
    {StripAbsent([code |-> c, msg |-> m, data |-> d, total |-> x]) :
        c \in CodeValues \cup {Absent}, m \in {Absent, Str("denied")},
        d \in DataValues \cup {Absent}, x \in {Absent, Num(1)}}
    \cup {Null, EmptyList, List(<<EmptyObj>>), Str("ok"), Num(5)}

RequestInit ==
    /\ ClientIdle
    /\ CoordIdle
    /\ UnitIdle
    /\ response_json \in RequestBodies
    /\ request_out = Pending
    /\ token_json = Null
    /\ token_out = Pending

\* api.py lines 99-119 on the parsed body
RequestParse ==
    /\ request_out = Pending
    /\ request_out' = ProcessResponse(response_json)
    /\ UNCHANGED <<clientVars, sessionVars, calls, coordVars, unitVars,
                   response_json, token_json, token_out>>

RequestNext == RequestParse

RequestSpec == RequestInit /\ [][RequestNext]_vars

(***************************************************************************)
(* TokenSpec: obtain_token applied to every token response of a bounded    *)
(* set, from a client with and without a token                             *)
(***************************************************************************)
TokenDataObjects ==
    {StripAbsent([access_token |-> a, accessToken |-> b, token |-> c]) :
        a \in {Absent, Str(""), Str("Td1")}, b \in {Absent, Null, Str("Td2")},
        c \in {Absent, Str(""), Str("Td3")}}

TokenBodies ==
    {StripAbsent([accessToken |-> a, token |-> b, data |-> d]) :
        a \in {Absent, Str(""), Str("Tr1")}, b \in {Absent, Null, Str("Tr2")},
        d \in {Absent, Null, Str(""), Str("Ts"), EmptyList, Num(0)}
              \cup TokenDataObjects}
    \cup {Null, EmptyList, Str("Tx")}

TokenInit ==
    /\ now \in {0, ExpiryMargin}
    /\ \/ access_token = Null /\ token_expiry = 0
       \/ access_token = Str("Told") /\ token_expiry = ExpiresIn - ExpiryMargin
    /\ token_json \in TokenBodies
    /\ token_out = Pending
    /\ response_json = Null
    /\ request_out = Pending
    /\ session = "none"
    /\ close_session = FALSE
    /\ resources = <<>>
    /\ calls = <<>>
    /\ CoordIdle
    /\ UnitIdle

\* api.py lines 158-178 on the parsed body
ObtainTokenParse ==
    /\ token_out = Pending
    /\ LET eff == ObtainTokenEffect(token_json, token_expiry, now)
       IN  /\ access_token' = eff.access_token
           /\ token_expiry' = eff.token_expiry
           /\ token_out' = eff.out
    /\ UNCHANGED <<now, sessionVars, calls, coordVars, unitVars,
                   response_json, request_out, token_json>>

TokenNext == ObtainTokenParse

TokenSpec == TokenInit /\ [][TokenNext]_vars

(***************************************************************************)
(* Claims about _request's handling of a response body                     *)
(***************************************************************************)
RequestParsed == request_out # Pending

EnvelopeWithCode == IsDict(response_json) /\ HasKey(response_json, "code")

SuccessForm(code) == code \in {Num(0), Num(1000000), Str("0"), Str("1000000")}

AuthForm(code) ==
    code \in {Num(1001), Num(1002), Num(1003),
              Str("1001"), Str("1002"), Str("1003")}

\* C7 as stated: for a body with a success code (numeric or string), request
\* returns `data` when it is a non-empty object, and the full envelope when
\* `data` is absent, {}, null or an empty list.
C7_SuccessReturnsDataOrEnvelope ==
    (RequestParsed /\ EnvelopeWithCode
        /\ SuccessForm(Get(response_json, "code")))
    => LET d == GetD(response_json, "data", Absent)
       IN  /\ (IsDict(d) /\ DOMAIN d.v # {}) => request_out = Return(d)
           /\ d \in {Absent, EmptyObj, Null, EmptyList}
                 => request_out = Return(response_json)

\* C8: a body whose code is 1001, 1002 or 1003 (numeric or string form) makes
\* request raise AuthError; any other code outside the success set makes it
\* raise the base ApiError, carrying the vendor msg; no payload is returned.
C8_ErrorCodes ==
    (RequestParsed /\ EnvelopeWithCode)
    => LET code == Get(response_json, "code")
       IN  /\ AuthForm(code) => request_out.exc = "DeyeCloudAuthError"
           /\ (~AuthForm(code) /\ ~SuccessForm(code))
                 => /\ request_out.exc = "DeyeCloudApiError"
                    /\ HasKey(response_json, "msg")
                          => request_out.val = Get(response_json, "msg")
           /\ ~SuccessForm(code) => request_out.kind = "raise"

C8_Witness ==
    /\ RequestParsed
    /\ EnvelopeWithCode
    /\ Get(response_json, "code") = Str("1002")
    /\ Get(response_json, "msg") = Str("denied")
    /\ HasKey(response_json, "data")
    /\ request_out = Raise("DeyeCloudAuthError", Str("denied"))

(***************************************************************************)
(* Claims about obtain_token's handling of a token response                *)
(***************************************************************************)
TokenParsed == token_out # Pending

NonEmpty(S) == {x \in S : Truthy(x)}

\* The non-empty tokens at the six documented places of a body
ShapeTokens(body) ==
    IF ~IsDict(body) THEN {}
    ELSE LET d == Get(body, "data")
         IN  NonEmpty({Get(body, "accessToken"), Get(body, "token")})
             \cup (IF IsStr(d) THEN NonEmpty({d}) ELSE {})
             \cup (IF IsDict(d)
                   THEN NonEmpty({Get(d, "access_token"), Get(d, "accessToken"),
                                  Get(d, "token")})
                   ELSE {})

\* C9: obtain_token returns and stores a token found at one of the six places
\* (with the expiry set from the time of the call), and raises AuthError
\* exactly when none of the six places holds a non-empty token.
C9_TokenShapes ==
    TokenParsed
    => /\ ShapeTokens(token_json) = {} <=> IsAuthError(token_out)
       /\ ShapeTokens(token_json) # {}
             => /\ token_out.kind = "return"
                /\ token_out.val \in ShapeTokens(token_json)
                /\ access_token = token_out.val
                /\ token_expiry = now + ExpiresIn - ExpiryMargin

C9_Witness ==
    /\ TokenParsed
    /\ token_json = Obj([data |-> Str("Ts")])
    /\ token_out = Return(Str("Ts"))
    /\ access_token = Str("Ts")

(***************************************************************************)
(* The client's calls.  A call runs without interruption from one await    *)
(* to the next: from its start to the sending of the token request (pc     *)
(* "auth") or of the endpoint request (pc "req"), and from the arrival of  *)
(* a response to the next sending or to its end (pc "done").               *)
(***************************************************************************)
\* What the network answers to a request that is in flight
NetFailures == {"ClientError", "TimeoutError", "OtherError"}

NetEventsOf(failures, bodies) ==
    {[kind |-> k, body |-> Null] : k \in failures}
    \cup {[kind |-> "body", body |-> b] : b \in bodies}

NetEvents(bodies) == NetEventsOf(NetFailures, bodies)

\* not self._access_token or time.time() >= self._token_expiry
NoValidToken(tok, expiry, t) == ~Truthy(tok) \/ t >= expiry

\* if require_auth: if not self._access_token or time.time() >= self._token_expiry
NeedsTokenNoExpiry(tok, expiry, t, require_auth) == require_auth /\ ~Truthy(tok)

\* if require_auth: await self.obtain_token()
NeedsTokenAlways(tok, expiry, t, require_auth) == require_auth

NeedsToken(tok, expiry, t, require_auth) ==
    require_auth /\ (~Truthy(tok) \/ t >= expiry)

\* _request up to its first await, on a client whose token state is (tok,
\* expiry) at time t: the token request when the guard asks for a token, else
\* the endpoint request with the stored token
BeginRequest(tok, expiry, t, require_auth) ==
    IF NeedsToken(tok, expiry, t, require_auth)
    THEN [IdleCall EXCEPT !.op = "request", !.pc = "auth",
                          !.require_auth = require_auth,
                          !.stale = NoValidToken(tok, expiry, t), !.nauth = 1]
    ELSE [IdleCall EXCEPT !.op = "request", !.pc = "req",
                          !.require_auth = require_auth,
                          !.stale = NoValidToken(tok, expiry, t), !.nsent = 1,
                          !.bearer = IF require_auth THEN tok ELSE Null]

\* if len(device_sns) > 10
MaxSerialsPerRequest == 10

\* get_device_latest_data(device_sns) with n serials up to its first await,
\* or to its end when it has none
BeginDeviceLatestNoLimit(tok, expiry, t, n) ==
    [BeginRequest(tok, expiry, t, TRUE) EXCEPT
        !.op = "get_device_latest_data", !.serials = n]

BeginDeviceLatest(tok, expiry, t, n) ==
    IF n > MaxSerialsPerRequest
    THEN [IdleCall EXCEPT !.op = "get_device_latest_data", !.serials = n,
                          !.pc = "done",
                          !.out = Raise("ValueError",
                                        Str("Maximum 10 devices per request"))]
    ELSE [BeginRequest(tok, expiry, t, TRUE) EXCEPT
             !.op = "get_device_latest_data", !.serials = n]

\* test_connection up to its first await: obtain_token's request
BeginTestConnection ==
    [IdleCall EXCEPT !.op = "test_connection", !.pc = "auth",
                     !.stale = NoValidToken(access_token, token_expiry, now),
                     !.nauth = 1]

\* test_connection turns every outcome of obtain_token into a boolean
Finish(call, net, out) ==
    [call EXCEPT !.pc = "done", !.net = net,
                 !.out = IF call.op = "test_connection"
                         THEN Return(Bool(out.kind = "return"))
                         ELSE out]

\* except aiohttp.ClientError / except asyncio.TimeoutError: one attempt, the
\* failure is raised to the caller; any other exception is not caught
TransportFailureRetry(call, kind) ==
    IF call.pc = "auth"
    THEN [call EXCEPT !.nauth = @ + 1]
    ELSE [call EXCEPT !.nsent = @ + 1]

TransportFailure(call, kind) ==
    Finish(call, kind,
           CASE kind = "ClientError"
                  -> Raise("DeyeCloudApiError", Str("Connection error"))
             [] kind = "TimeoutError"
                  -> Raise("DeyeCloudApiError", Str("Request timeout"))
             [] OTHER -> Raise("ValueError", Str("undecodable body")))

\* The call after the token response e: obtain_token, then (in _request) the
\* endpoint request with the token just stored
AfterTokenResponse(call, e) ==
    IF e.kind # "body" THEN TransportFailure(call, e.kind)
    ELSE LET eff == ObtainTokenEffect(e.body, token_expiry, now)
         IN  IF eff.out.kind = "raise" \/ call.op = "test_connection"
             THEN Finish(call, "body", eff.out)
             ELSE [call EXCEPT !.pc = "req", !.auth_done = TRUE,
                               !.nsent = @ + 1, !.bearer = eff.access_token]

\* The call after the endpoint response e
AfterEndpointResponse(call, e) ==
    IF e.kind # "body" THEN TransportFailure(call, e.kind)
    ELSE Finish(call, "body", ProcessResponse(e.body))

\* A refresh that finds a token stored and not expired keeps it
TokenStateAfterKeepFirst(e) ==
    IF e.kind # "body" \/ (Truthy(access_token) /\ now < token_expiry)
    THEN [access_token |-> access_token, token_expiry |-> token_expiry]
    ELSE LET eff == ObtainTokenEffect(e.body, token_expiry, now)
         IN  [access_token |-> eff.access_token,
              token_expiry |-> eff.token_expiry]

\* The token state after the token response e
TokenStateAfter(e) ==
    IF e.kind # "body"
    THEN [access_token |-> access_token, token_expiry |-> token_expiry]
    ELSE LET eff == ObtainTokenEffect(e.body, token_expiry, now)
         IN  [access_token |-> eff.access_token,
              token_expiry |-> eff.token_expiry]

\* A session nobody has closed, of the client ("client": aiohttp.ClientSession()
\* in _get_session) or of the caller ("caller": the constructor's argument).
\* closes counts the close() calls made on the client since the session
\* exists, closed_at is the value of closes when the session was closed.
NewResource(owner) ==
    [owner |-> owner, open |-> TRUE, closes |-> 0, closed_at |-> 0]

\* _get_session: a session is created, and owned, when none was supplied
GetSession ==
    /\ session' = IF session = "none" THEN "own" ELSE session
    /\ close_session' = (close_session \/ session = "none")
    /\ resources' = IF session = "none"
                    THEN Append(resources, NewResource("client"))
                    ELSE resources

(***************************************************************************)
(* ClientSpec: callers using one client concurrently                       *)
(***************************************************************************)
MaxCallers == 2

MaxTicks == 1

\* The clock advances in steps of the token's refresh window
ClockStep == ExpiresIn - ExpiryMargin

Callers == 1..MaxCallers

ClientTokenBodies ==
    {Obj([accessToken |-> Str("T1")]),
     Obj([code |-> Num(0), data |-> Obj([token |-> Str("T2")])]),
     Obj([code |-> Num(1001), msg |-> Str("denied")])}

ClientBodies ==
    {Obj([code |-> Num(0), data |-> Obj([total |-> Num(1)])]),
     Obj([code |-> Num(1002), msg |-> Str("denied")]),
     Obj([code |-> Num(2101), msg |-> Str("busy")])}

ClientInit ==
    /\ access_token = Null
    /\ token_expiry = 0
    /\ now = 0
    /\ session = "none"
    /\ close_session = FALSE
    /\ resources = <<>>
    /\ calls = [c \in Callers |-> IdleCall]
    /\ PureIdle
    /\ CoordIdle

\* A caller calls _request(method, endpoint, data, require_auth)
CallRequest(c, require_auth) ==
    /\ calls[c].pc = "idle"
    /\ GetSession
    /\ calls' = [calls EXCEPT
                    ![c] = BeginRequest(access_token, token_expiry, now,
                                        require_auth)]
    /\ UNCHANGED <<clientVars, pureVars, coordVars>>

\* A caller calls test_connection()
CallTestConnection(c) ==
    /\ calls[c].pc = "idle"
    /\ GetSession
    /\ calls' = [calls EXCEPT ![c] = BeginTestConnection]
    /\ UNCHANGED <<clientVars, pureVars, coordVars>>

\* The answer to a call's token request arrives
TokenResponse(c, e) ==
    /\ calls[c].pc = "auth"
    /\ calls' = [calls EXCEPT ![c] = AfterTokenResponse(calls[c], e)]
    /\ access_token' = TokenStateAfter(e).access_token
    /\ token_expiry' = TokenStateAfter(e).token_expiry
    /\ UNCHANGED <<now, sessionVars, pureVars, coordVars>>

\* The answer to a call's endpoint request arrives
EndpointResponse(c, e) ==
    /\ calls[c].pc = "req"
    /\ calls' = [calls EXCEPT ![c] = AfterEndpointResponse(calls[c], e)]
    /\ UNCHANGED <<clientVars, sessionVars, pureVars, coordVars>>

\* The caller has its result (or exception)
Collect(c) ==
    /\ calls[c].pc = "done"
    /\ calls' = [calls EXCEPT ![c] = IdleCall]
    /\ UNCHANGED <<clientVars, sessionVars, pureVars, coordVars>>

AdvanceClock ==
    /\ now + ClockStep <= MaxTicks * ClockStep
    /\ now' = now + ClockStep
    /\ UNCHANGED <<access_token, token_expiry, sessionVars, calls, pureVars,
                   coordVars>>

ClientNext ==
    \/ \E c \in Callers, require_auth \in BOOLEAN : CallRequest(c, require_auth)
    \/ \E c \in Callers : CallTestConnection(c)
    \/ \E c \in Callers, e \in NetEvents(ClientTokenBodies) : TokenResponse(c, e)
    \/ \E c \in Callers, e \in NetEvents(ClientBodies) : EndpointResponse(c, e)
    \/ \E c \in Callers : Collect(c)
    \/ AdvanceClock

ClientSpec == ClientInit /\ [][ClientNext]_vars

(***************************************************************************)
(* DeyeCoordinator: discovery and the merging of latest data into the      *)
(* cache self.data = {"stations": {...}, "devices": {...}}.  A cache entry *)
(* is [info |-> ..., data |-> a function from metric keys to values].      *)
(***************************************************************************)
MAX_SN_PER_BATCH == 10

EmptyMap == <<>>

UpdateAccumulate(old, upd) ==
    [k \in DOMAIN old \cup DOMAIN upd |->
        IF k \notin DOMAIN upd THEN old[k]
        ELSE IF k \in DOMAIN old /\ old[k].t = "num" /\ upd[k].t = "num"
             THEN Num(old[k].v + upd[k].v)
             ELSE upd[k]]

\* dict.update: the keys of upd overwrite, the other keys of old stay
Update(old, upd) ==
    [k \in DOMAIN old \cup DOMAIN upd |-> IF k \in DOMAIN upd THEN upd[k] ELSE old[k]]

\* d[key] = value on a dict d
Put(d, key, value) ==
    [k \in DOMAIN d \cup {key} |-> IF k = key THEN value ELSE d[k]]

\* (result.get("stationList") if isinstance(result, dict) else []) or []
StationListOf(result) ==
    IF IsDict(result) THEN PyOr(Get(result, "stationList"), EmptyList) ELSE EmptyList

\* result if isinstance(result, dict) else {}
DictOrEmpty(result) == IF IsDict(result) THEN result ELSE EmptyObj

RECURSIVE DiscoverDevicesAppend(_, _, _, _)
DiscoverDevicesAppend(rows, i, sid, acc) ==
    IF i > Len(rows) THEN acc
    ELSE LET d == rows[i]
         IN  IF ~IsDict(d) THEN [acc EXCEPT !.exc = "AttributeError"]
             ELSE LET sn == PyOr(Get(d, "deviceSn"), Get(d, "sn"))
                  IN  IF ~Truthy(sn) THEN DiscoverDevicesAppend(rows, i + 1, sid, acc)
                      ELSE DiscoverDevicesAppend(rows, i + 1, sid,
                             [acc EXCEPT
                                !.devices = Append(@, sn.v),
                                !.ddata = Put(@, sn.v,
                                   [info |-> [deviceName |-> PyOr(Get(d, "deviceName"), sn),
                                              deviceModel |-> Get(d, "deviceModel"),
                                              firmwareVersion |->
                                                 PyOr(Get(d, "firmwareVersion"),
                                                      PyOr(Get(d, "fwVersion"),
                                                           Get(d, "version"))),
                                              stationId |-> sid],
                                    data |-> EmptyMap])])

\* The fold of the device rows that keeps the cache entry of a serial it has
\* seen before
RECURSIVE DiscoverDevicesKeepFirst(_, _, _, _)
DiscoverDevicesKeepFirst(rows, i, sid, acc) ==
    IF i > Len(rows) THEN acc
    ELSE LET d == rows[i]
         IN  IF ~IsDict(d) THEN [acc EXCEPT !.exc = "AttributeError"]
             ELSE LET sn == PyOr(Get(d, "deviceSn"), Get(d, "sn"))
                  IN  IF ~Truthy(sn) \/ (Truthy(sn) /\ sn.v \in DOMAIN acc.ddata)
                      THEN DiscoverDevicesKeepFirst(rows, i + 1, sid, acc)
                      ELSE DiscoverDevicesKeepFirst(rows, i + 1, sid,
                             [acc EXCEPT
                                !.devices = Append(@, sn.v),
                                !.ddata = Put(@, sn.v,
                                   [info |-> [deviceName |-> PyOr(Get(d, "deviceName"), sn),
                                              deviceModel |-> Get(d, "deviceModel"),
                                              firmwareVersion |->
                                                 PyOr(Get(d, "firmwareVersion"),
                                                      PyOr(Get(d, "fwVersion"),
                                                           Get(d, "version"))),
                                              stationId |-> sid],
                                    data |-> EmptyMap])])

\* The device rows of one station row, folded into (devices, cache.devices)
RECURSIVE DiscoverDevices(_, _, _, _)
DiscoverDevices(rows, i, sid, acc) ==
    IF i > Len(rows) THEN acc
    ELSE LET d == rows[i]
         IN  IF ~IsDict(d) THEN [acc EXCEPT !.exc = "AttributeError"]
             ELSE LET sn == PyOr(Get(d, "deviceSn"), Get(d, "sn"))
                  IN  IF ~Truthy(sn) THEN DiscoverDevices(rows, i + 1, sid, acc)
                      ELSE DiscoverDevices(rows, i + 1, sid,
                             [acc EXCEPT
                                !.devices = IF \E j \in 1..Len(@) : @[j] = sn.v
                                            THEN @ ELSE Append(@, sn.v),
                                !.ddata = Put(@, sn.v,
                                   [info |-> [deviceName |-> PyOr(Get(d, "deviceName"), sn),
                                              deviceModel |-> Get(d, "deviceModel"),
                                              firmwareVersion |->
                                                 PyOr(Get(d, "firmwareVersion"),
                                                      PyOr(Get(d, "fwVersion"),
                                                           Get(d, "version"))),
                                              stationId |-> sid],
                                    data |-> EmptyMap])])

RECURSIVE DiscoverStationsIdOnly(_, _, _)
DiscoverStationsIdOnly(rows, i, acc) ==
    IF i > Len(rows) \/ acc.exc # "none" THEN acc
    ELSE LET s == rows[i]
         IN  IF ~IsDict(s) THEN [acc EXCEPT !.exc = "AttributeError"]
             ELSE LET sid == Get(s, "stationId")
                      sname == PyOr(Get(s, "stationName"), Get(s, "name"))
                      devs == PyOr(Get(s, "deviceList"),
                                   PyOr(Get(s, "devices"), EmptyList))
                  IN  IF ~Truthy(sid) THEN DiscoverStationsIdOnly(rows, i + 1, acc)
                      ELSE DiscoverStationsIdOnly(rows, i + 1,
                             DiscoverDevices(devs.v, 1, sid.v,
                                [acc EXCEPT
                                   !.stations = Append(@, sid.v),
                                   !.sdata = Put(@, sid.v,
                                      [info |-> [name |-> sname],
                                       data |-> EmptyMap])]))

\* The station rows, folded into (stations, devices, cache)
RECURSIVE DiscoverStations(_, _, _)
DiscoverStations(rows, i, acc) ==
    IF i > Len(rows) \/ acc.exc # "none" THEN acc
    ELSE LET s == rows[i]
         IN  IF ~IsDict(s) THEN [acc EXCEPT !.exc = "AttributeError"]
             ELSE LET sid == PyOr(Get(s, "stationId"),
                                  PyOr(Get(s, "id"), Get(s, "station_id")))
                      sname == PyOr(Get(s, "stationName"), Get(s, "name"))
                      devs == PyOr(Get(s, "deviceList"),
                                   PyOr(Get(s, "devices"), EmptyList))
                  IN  IF ~Truthy(sid) THEN DiscoverStations(rows, i + 1, acc)
                      ELSE DiscoverStations(rows, i + 1,
                             DiscoverDevices(devs.v, 1, sid.v,
                                [acc EXCEPT
                                   !.stations = Append(@, sid.v),
                                   !.sdata = Put(@, sid.v,
                                      [info |-> [name |-> sname],
                                       data |-> EmptyMap])]))

\* _discover_topology on the payload of get_station_list_with_devices
DiscoverTopology(stations_payload) ==
    DiscoverStations(stations_payload.v, 1,
        [stations |-> <<>>, devices |-> <<>>, sdata |-> EmptyMap,
         ddata |-> EmptyMap, exc |-> "none"])

\* The keys _fetch_station_latest picks from a station response
StationKeys ==
    {"todayEnergy", "totalEnergy", "currentPower", "gridPower", "buyPower",
     "sellPower"}

\* Every key of latest, with its value
PickedKeysAll(latest) == latest.v

\* The known keys of latest, with their values
PickedKeys(latest) ==
    [k \in {j \in StationKeys : HasKey(latest, j)} |-> latest.v[k]]

\* _fetch_station_latest's merge of the response latest into cache.stations
MergeStationReplace(sdata, station_id, latest) ==
    IF ~IsDict(latest) THEN sdata
    ELSE LET d1 == IF station_id \in DOMAIN sdata THEN sdata
                   ELSE Put(sdata, station_id, [info |-> EmptyMap, data |-> EmptyMap])
         IN  [d1 EXCEPT ![station_id].data = PickedKeys(latest)]

MergeStation(sdata, station_id, latest) ==
    IF ~IsDict(latest) THEN sdata
    ELSE LET d1 == IF station_id \in DOMAIN sdata THEN sdata
                   ELSE Put(sdata, station_id, [info |-> EmptyMap, data |-> EmptyMap])
         IN  [d1 EXCEPT ![station_id].data = Update(@, PickedKeys(latest))]

\* cache.stations after the fetch for station_id ended with out: a result is
\* merged, DeyeCloudApiError is caught and logged, any other exception leaves
\* the coroutine (and is collected by gather)
StationFetchedBlank(sdata, station_id, out) ==
    IF out.kind = "return" THEN MergeStation(sdata, station_id, DictOrEmpty(out.val))
    ELSE [sdata EXCEPT ![station_id].data = EmptyMap]

StationFetched(sdata, station_id, out) ==
    IF out.kind = "return" THEN MergeStation(sdata, station_id, DictOrEmpty(out.val))
    ELSE sdata

\* payload.get("deviceDataList") or payload.get("list") or []
DevListOf(payload) ==
    PyOr(Get(payload, "deviceDataList"), PyOr(Get(payload, "list"), EmptyList))

\* Case A: the key/value pairs of dataList, later pairs overwriting
RECURSIVE FlatOfDataList(_, _, _)
FlatOfDataList(items, i, flat) ==
    IF i > Len(items) THEN flat
    ELSE LET k == Get(items[i], "key")
             v == Get(items[i], "value")
         IN  FlatOfDataList(items, i + 1, IF k # Null THEN Put(flat, k.v, v) ELSE flat)

\* The metrics of one device entry: dataList first, the flat data object only
\* when dataList gave nothing
FlatOfMerged(dev) ==
    LET a == FlatOfDataList(GetD(dev, "dataList", EmptyList).v, 1, EmptyMap)
    IN  IF IsDict(Get(dev, "data")) THEN Update(Get(dev, "data").v, a) ELSE a

FlatOfDataListOnly(dev) ==
    FlatOfDataList(GetD(dev, "dataList", EmptyList).v, 1, EmptyMap)

FlatOf(dev) ==
    LET a == FlatOfDataList(GetD(dev, "dataList", EmptyList).v, 1, EmptyMap)
    IN  IF DOMAIN a = {} /\ IsDict(Get(dev, "data")) THEN Get(dev, "data").v ELSE a

\* One entry of the device list merged into cache.devices; an entry whose
\* serial is not in the cache is skipped
MergeDevEntryAdd(ddata, dev) ==
    LET sn == PyOr(Get(dev, "deviceSn"), Get(dev, "sn"))
    IN  IF ~Truthy(sn) THEN ddata
        ELSE IF sn.v \notin DOMAIN ddata
             THEN Put(ddata, sn.v, [info |-> EmptyMap, data |-> FlatOf(dev)])
             ELSE [ddata EXCEPT ![sn.v].data = Update(@, FlatOf(dev))]

MergeDevEntry(ddata, dev) ==
    LET sn == PyOr(Get(dev, "deviceSn"), Get(dev, "sn"))
    IN  IF ~Truthy(sn) \/ sn.v \notin DOMAIN ddata THEN ddata
        ELSE [ddata EXCEPT ![sn.v].data = Update(@, FlatOf(dev))]

\* A device entry on which the loop raises: it is not an object
\* (AttributeError on dev.get), or it is a known device whose dataList is not
\* a list (TypeError on the iteration)
EntryRaises(ddata, dev) ==
    IF ~IsDict(dev) THEN "AttributeError"
    ELSE LET sn == PyOr(Get(dev, "deviceSn"), Get(dev, "sn"))
         IN  IF Truthy(sn) /\ sn.v \in DOMAIN ddata
                /\ GetD(dev, "dataList", EmptyList).t # "list"
             THEN "TypeError" ELSE "none"

\* The entries of a batch response merged in order, up to the first entry on
\* which the loop raises
RECURSIVE MergeDevices(_, _, _)
MergeDevices(ddata, dev_list, i) ==
    IF i > Len(dev_list) THEN [ddata |-> ddata, exc |-> "none"]
    ELSE IF EntryRaises(ddata, dev_list[i]) # "none"
         THEN [ddata |-> ddata, exc |-> EntryRaises(ddata, dev_list[i])]
         ELSE MergeDevices(MergeDevEntry(ddata, dev_list[i]), dev_list, i + 1)

\* batch = self.devices[i : i + MAX_SN_PER_BATCH + 1]
BatchAtWide(devs, i) ==
    SubSeq(devs, i + 1, IF i + MAX_SN_PER_BATCH + 1 < Len(devs)
                        THEN i + MAX_SN_PER_BATCH + 1 ELSE Len(devs))

\* batch = self.devices[i : i + MAX_SN_PER_BATCH], i counted from 0
BatchAt(devs, i) ==
    SubSeq(devs, i + 1, IF i + MAX_SN_PER_BATCH < Len(devs)
                        THEN i + MAX_SN_PER_BATCH ELSE Len(devs))

(***************************************************************************)
(* Spec: the coordinator's start-up and refresh cycles on its client.      *)
(* The coordinator's coroutine and the station tasks of a gather run       *)
(* without interruption between two awaits of a network exchange.          *)
(***************************************************************************)
\* Rows of the stations-with-devices payload
StationRow(id, name, devs) ==
    Obj([stationId |-> Str(id), stationName |-> Str(name), deviceList |-> List(devs)])

DeviceRow(sn) == Obj([deviceSn |-> Str(sn), deviceName |-> Str("Inv")])

Envelope(payload) == Obj([code |-> Num(0), msg |-> Str("ok"), data |-> payload])

SpecTopologies ==
    {<<StationRow("S1", "Home", <<DeviceRow("D1")>>), StationRow("S2", "Barn", <<>>)>>,
     <<Obj([stationName |-> Str("Lost"), deviceList |-> List(<<DeviceRow("D9")>>)]),
       Obj([id |-> Str("S1"), name |-> Str("Home"),
            devices |-> List(<<Obj([sn |-> Str("D1")]), DeviceRow("D2"),
                               Obj([deviceName |-> Str("Inv")])>>)])>>,
     <<StationRow("S1", "Home", <<>>), Str("S2")>>,
     <<>>}

SpecDiscoveryBodies ==
    {Envelope(Obj([stationList |-> List(rows)])) : rows \in SpecTopologies}
    \cup {Obj([code |-> Num(2101), msg |-> Str("busy")])}

SpecTokenBodies ==
    {Obj([code |-> Num(0), data |-> Obj([accessToken |-> Str("T1")])]),
     Obj([code |-> Num(1001), msg |-> Str("denied")])}

SpecStationBodies ==
    {Envelope(Obj([currentPower |-> Num(1)])),
     Obj([currentPower |-> Num(2), stationName |-> Str("Home")]),
     Envelope(Obj([todayEnergy |-> Num(5)])),
     Obj([code |-> Num(1002), msg |-> Str("denied")])}

KeyValue(k, v) == Obj([key |-> Str(k), value |-> Num(v)])

SpecDeviceEntries ==
    {Obj([deviceSn |-> Str("D1"), dataList |-> List(<<KeyValue("batteryPower", 150)>>)]),
     Obj([sn |-> Str("D1"), data |-> Obj([batteryPower |-> Num(151), soc |-> Num(80)])]),
     Obj([deviceSn |-> Str("D1"), dataList |-> Null]),
     Obj([deviceSn |-> Str("DX"), dataList |-> List(<<KeyValue("soc", 80)>>)])}

SpecDeviceBodies ==
    {Envelope(Obj([deviceDataList |-> List(<<e>>)])) : e \in SpecDeviceEntries}
    \cup {Obj([list |-> List(<<Obj([deviceSn |-> Str("D2"), data |-> Obj([soc |-> Num(80)])]),
                                Obj([sn |-> Str("D1"), dataList |-> List(<<KeyValue("soc", 80)>>),
                                     data |-> Obj([batteryPower |-> Num(152)])])>>)])}
    \cup {Obj([code |-> Num(2101), msg |-> Str("busy")])}

SpecFailures == {"ClientError", "OtherError"}

\* The most stations a discovery of SpecTopologies finds
MaxStations == 2

Init ==
    /\ ClientIdle
    /\ PureIdle
    /\ CoordIdle

\* The refresh cycle from its start to its first await.
\* _update_stations_latest starts one _fetch_station_latest task per element
\* of stations; each runs _request up to its first await before any answer
\* can arrive.  Without stations the cycle goes on to the devices.
StationTasks(sts, tok, expiry, t) ==
    [k \in 1..Len(sts) |-> BeginRequest(tok, expiry, t, TRUE)]

\* The end of the cycle: DataUpdateCoordinator sets last_update_success to
\* whether _async_update_data returned; the first refresh of
\* async_config_entry_first_refresh raises ConfigEntryNotReady when it did not
CycleEnd(ok, su) ==
    [phase |-> IF ok \/ ~su THEN "ready" ELSE "not_ready",
     main_call |-> IdleCall, batch_i |-> 0, last_update_success |-> ok,
     startup |-> FALSE]

\* _update_devices_latest from batch i on, up to its first await:
\* get_device_latest_data(batch), whose ValueError for a batch of more than
\* ten serials is not caught by the loop
DevicesFrom(i, devs, tok, expiry, t, lus, su) ==
    IF i >= Len(devs) THEN CycleEnd(TRUE, su)
    ELSE LET call == BeginDeviceLatest(tok, expiry, t, Len(BatchAt(devs, i)))
         IN  IF call.pc = "done" THEN CycleEnd(FALSE, su)
             ELSE [phase |-> "devices", main_call |-> call, batch_i |-> i,
                   last_update_success |-> lus, startup |-> su]

\* _async_update_data up to its first await
CycleStart(sts, devs, tok, expiry, t, lus, su) ==
    IF Len(sts) > 0
    THEN [phase |-> "stations", main_call |-> IdleCall, batch_i |-> 0,
          last_update_success |-> lus, startup |-> su]
    ELSE DevicesFrom(0, devs, tok, expiry, t, lus, su)

SetControl(ctl) ==
    /\ phase' = ctl.phase
    /\ main_call' = ctl.main_call
    /\ batch_i' = ctl.batch_i
    /\ last_update_success' = ctl.last_update_success
    /\ startup' = ctl.startup

\* async_config_entry_first_refresh calls _discover_topology, which awaits
\* get_station_list_with_devices
StartUp ==
    /\ phase = "uninit"
    /\ GetSession
    /\ phase' = "discovering"
    /\ startup' = TRUE
    /\ main_call' = BeginRequest(access_token, token_expiry, now, TRUE)
    /\ UNCHANGED <<clientVars, pureVars, calls, stations, devices, data,
                   last_update_success, batch_i, tasks, batch_outs, before,
                   discovery, refreshed, fetch_failures>>

\* The call the coroutine awaits, after the network event e
MainAfter(e) ==
    IF main_call.pc = "auth" THEN AfterTokenResponse(main_call, e)
    ELSE AfterEndpointResponse(main_call, e)

\* The token state after the network event e of a call at pc
TokenAfter(pc, e) ==
    IF pc = "auth" THEN TokenStateAfter(e)
    ELSE [access_token |-> access_token, token_expiry |-> token_expiry]

\* An answer arrives for the discovery call.  Any exception of
\* _discover_topology becomes ConfigEntryNotReady; after a discovery the first
\* refresh begins.
DiscoveryStep(e) ==
    /\ phase = "discovering"
    /\ main_call.pc \in {"auth", "req"}
    /\ LET call == MainAfter(e)
           tok == TokenAfter(main_call.pc, e)
           topo == DiscoverTopology(StationListOf(call.out.val))
       IN  /\ access_token' = tok.access_token
           /\ token_expiry' = tok.token_expiry
           /\ IF call.pc # "done"
              THEN /\ main_call' = call
                   /\ UNCHANGED <<stations, devices, data, last_update_success,
                                  phase, startup, batch_i, tasks, before,
                                  discovery, refreshed>>
              ELSE IF call.out.kind = "raise"
              THEN /\ phase' = "not_ready"
                   /\ main_call' = call
                   /\ discovery' = "failed"
                   /\ startup' = FALSE
                   /\ UNCHANGED <<stations, devices, data, last_update_success,
                                  batch_i, tasks, before, refreshed>>
              ELSE /\ stations' = topo.stations
                   /\ devices' = topo.devices
                   /\ data' = [stations |-> topo.sdata, devices |-> topo.ddata]
                   /\ IF topo.exc # "none"
                      THEN /\ phase' = "not_ready"
                           /\ main_call' = call
                           /\ discovery' = "failed"
                           /\ startup' = FALSE
                           /\ UNCHANGED <<last_update_success, batch_i, tasks,
                                          before, refreshed>>
                      ELSE /\ discovery' = "ok"
                           /\ refreshed' = TRUE
                           /\ before' = data'
                           /\ tasks' = StationTasks(topo.stations, tok.access_token,
                                                    tok.token_expiry, now)
                           /\ SetControl(CycleStart(topo.stations, topo.devices,
                                                    tok.access_token, tok.token_expiry,
                                                    now, last_update_success, startup))
    /\ UNCHANGED <<now, sessionVars, pureVars, calls, batch_outs, fetch_failures>>

\* An answer arrives for station task k; when its call ends,
\* _fetch_station_latest merges the result or ends with the exception
StationStep(k, e) ==
    /\ phase = "stations"
    /\ k \in DOMAIN tasks
    /\ tasks[k].pc \in {"auth", "req"}
    /\ LET call == IF tasks[k].pc = "auth" THEN AfterTokenResponse(tasks[k], e)
                   ELSE AfterEndpointResponse(tasks[k], e)
           tok == TokenAfter(tasks[k].pc, e)
       IN  /\ access_token' = tok.access_token
           /\ token_expiry' = tok.token_expiry
           /\ tasks' = [tasks EXCEPT ![k] = call]
           /\ data' = IF call.pc = "done"
                      THEN [data EXCEPT
                              !.stations = StationFetched(@, stations[k], call.out)]
                      ELSE data
           /\ fetch_failures' = IF call.pc = "done" /\ call.out.kind = "raise"
                                THEN fetch_failures + 1 ELSE fetch_failures
    /\ UNCHANGED <<now, sessionVars, pureVars, calls, stations, devices,
                   last_update_success, phase, startup, batch_i, main_call,
                   batch_outs, before, discovery, refreshed>>

\* gather has collected every task and its result is dropped:
\* _update_devices_latest begins
StationsGathered ==
    /\ phase = "stations"
    /\ \A k \in DOMAIN tasks : tasks[k].pc = "done"
    /\ before' = data
    /\ tasks' = <<>>
    /\ SetControl(DevicesFrom(0, devices, access_token, token_expiry, now,
                              last_update_success, startup))
    /\ UNCHANGED <<clientVars, sessionVars, pureVars, calls, stations, devices,
                   data, batch_outs, discovery, refreshed, fetch_failures>>

\* An answer arrives for the batch call.  When the call ends: a
\* DeyeCloudApiError is caught and the loop goes on; a result is merged entry
\* by entry and the loop goes on; any other exception leaves
\* _async_update_data.
BatchStep(e) ==
    /\ phase = "devices"
    /\ main_call.pc \in {"auth", "req"}
    /\ LET call == MainAfter(e)
           tok == TokenAfter(main_call.pc, e)
           merged == IF call.out.kind = "return"
                     THEN MergeDevices(data.devices,
                                       DevListOf(DictOrEmpty(call.out.val)).v, 1)
                     ELSE [ddata |-> data.devices,
                           exc |-> IF IsApiError(call.out) THEN "none"
                                   ELSE call.out.exc]
       IN  /\ access_token' = tok.access_token
           /\ token_expiry' = tok.token_expiry
           /\ IF call.pc # "done"
              THEN /\ main_call' = call
                   /\ UNCHANGED <<data, batch_outs, phase, batch_i,
                                  last_update_success, startup, fetch_failures>>
              ELSE /\ data' = [data EXCEPT !.devices = merged.ddata]
                   /\ batch_outs' = Append(batch_outs, call.out)
                   /\ fetch_failures' = IF call.out.kind = "raise"
                                        THEN fetch_failures + 1 ELSE fetch_failures
                   /\ IF merged.exc # "none"
                      THEN SetControl(CycleEnd(FALSE, startup))
                      ELSE SetControl(DevicesFrom(batch_i + MAX_SN_PER_BATCH, devices,
                                                  tok.access_token, tok.token_expiry,
                                                  now, last_update_success, startup))
    /\ UNCHANGED <<now, sessionVars, pureVars, calls, stations, devices, tasks,
                   before, discovery, refreshed>>

\* The update interval has passed: the next refresh cycle
ScheduledRefresh ==
    /\ phase = "ready"
    /\ before' = data
    /\ batch_outs' = <<>>
    /\ fetch_failures' = 0
    /\ tasks' = StationTasks(stations, access_token, token_expiry, now)
    /\ SetControl(CycleStart(stations, devices, access_token, token_expiry, now,
                             last_update_success, startup))
    /\ UNCHANGED <<clientVars, sessionVars, pureVars, calls, stations, devices,
                   data, discovery, refreshed>>

ClockTick ==
    /\ now + ClockStep <= MaxTicks * ClockStep
    /\ now' = now + ClockStep
    /\ UNCHANGED <<access_token, token_expiry, sessionVars, calls, pureVars,
                   coordVars>>

Next ==
    \/ StartUp
    \/ \E e \in NetEventsOf(SpecFailures, SpecTokenBodies \cup SpecDiscoveryBodies) :
          DiscoveryStep(e)
    \/ \E k \in 1..MaxStations,
          e \in NetEventsOf(SpecFailures, SpecTokenBodies \cup SpecStationBodies) :
          StationStep(k, e)
    \/ StationsGathered
    \/ \E e \in NetEventsOf(SpecFailures, SpecTokenBodies \cup SpecDeviceBodies) :
          BatchStep(e)
    \/ ScheduledRefresh
    \/ ClockTick

Spec == Init /\ [][Next]_vars

(***************************************************************************)
(* Claims about the token guard of _request and about transport failures   *)
(***************************************************************************)
\* Every authenticated request that started without a valid token has invoked
\* obtain_token exactly once, and has sent its endpoint request only after
\* obtain_token completed; every other request has not invoked it.
GuardedRefresh ==
    \A c \in DOMAIN calls :
        calls[c].op = "request"
        => /\ (calls[c].require_auth /\ calls[c].stale)
                 => /\ calls[c].nauth = 1
                    /\ calls[c].nsent >= 1 => calls[c].auth_done
                    /\ calls[c].pc = "auth" => calls[c].nsent = 0
           /\ ~(calls[c].require_auth /\ calls[c].stale)
                 => calls[c].nauth = 0 /\ ~calls[c].auth_done

TokenStateChanges ==
    access_token' # access_token \/ token_expiry' # token_expiry

\* A step of caller c's call that handles the answer to its token request
TokenStepOf(c) == calls[c].pc = "auth" /\ calls'[c] # calls[c]

StaleAuthRequest(c) ==
    calls[c].op = "request" /\ calls[c].require_auth /\ calls[c].stale

\* C1 as stated: an authenticated request refreshes the token exactly once,
\* before it is sent, when it starts without a valid token and not at all
\* otherwise, and the token state never changes outside such a request.
C1_RefreshOnlyInStaleRequest ==
    /\ []GuardedRefresh
    /\ [][TokenStateChanges
            => \E c \in DOMAIN calls : TokenStepOf(c) /\ StaleAuthRequest(c)]_vars

\* C1 amended: as C1, but the token state also changes in an explicit
\* obtain_token call (test_connection); it changes in no other step.
C1_RefreshInStaleRequestOrExplicit ==
    /\ []GuardedRefresh
    /\ [][TokenStateChanges
            => \E c \in DOMAIN calls :
                  /\ TokenStepOf(c)
                  /\ StaleAuthRequest(c) \/ calls[c].op = "test_connection"]_vars

C1_Witness ==
    \E c \in DOMAIN calls :
        /\ calls[c].op = "request"
        /\ calls[c].require_auth
        /\ calls[c].stale
        /\ now > 0
        /\ calls[c].nauth = 1
        /\ calls[c].auth_done
        /\ calls[c].pc = "done"
        /\ calls[c].out.kind = "return"
        /\ calls[c].bearer = access_token

TransportFailed(c) ==
    calls[c].op = "request" /\ calls[c].net \in {"ClientError", "TimeoutError"}

VendorRefused(c) ==
    calls[c].op = "request" /\ calls[c].net = "body" /\ calls[c].out.kind = "raise"

OneAttempt == \A c \in DOMAIN calls : calls[c].nsent <= 1 /\ calls[c].nauth <= 1

\* C10 as stated: a transport failure or timeout is reported as a failure
\* kind that differs from the kinds of the vendor's refusals (AuthError,
\* ApiError), and the request is attempted once.
C10_TransportFailureDistinctKind ==
    /\ OneAttempt
    /\ \A c, d \in DOMAIN calls :
          (TransportFailed(c) /\ VendorRefused(d))
          => calls[c].out.exc # calls[d].out.exc

\* C10 amended: a transport failure or timeout ends the request with the base
\* DeyeCloudApiError (which is not an AuthError, and is the kind of a refusal
\* with any other vendor code) after one attempt; nothing is sent twice.
C10_TransportFailureIsApiError ==
    /\ OneAttempt
    /\ \A c \in DOMAIN calls :
          TransportFailed(c)
          => /\ calls[c].pc = "done"
             /\ calls[c].out.kind = "raise"
             /\ calls[c].out.exc = "DeyeCloudApiError"
             /\ calls[c].nsent = 1 \/ (calls[c].nauth = 1 /\ calls[c].nsent = 0)

C10_Witness ==
    \E c, d \in DOMAIN calls :
        /\ TransportFailed(c)
        /\ calls[c].net = "TimeoutError"
        /\ calls[c].nsent = 1
        /\ calls[c].out = Raise("DeyeCloudApiError", Str("Request timeout"))
        /\ VendorRefused(d)
        /\ calls[d].out = Raise("DeyeCloudApiError", Str("busy"))

(***************************************************************************)
(* Claims about the coordinator's refresh cycles (Spec)                    *)
(***************************************************************************)
\* The station tasks of the running cycle that have ended
EndedTasks == {k \in DOMAIN tasks : tasks[k].pc = "done"}

TaskRaised(k) == k \in EndedTasks /\ tasks[k].out.kind = "raise"

TaskReturned(k) == k \in EndedTasks /\ tasks[k].out.kind = "return"

\* The data map m is the map m0 overwritten with the known keys of latest
UpdatedFrom(m, m0, latest) ==
    /\ DOMAIN m = DOMAIN m0 \cup {key \in StationKeys : HasKey(latest, key)}
    /\ \A key \in DOMAIN m :
          m[key] = IF key \in StationKeys /\ HasKey(latest, key)
                   THEN latest.v[key] ELSE m0[key]

\* C2: while the station fetches of a cycle are gathered, the entry of every
\* station whose fetch raised (whatever it raised) is exactly what it was
\* before the cycle, and the data map of every station whose fetch returned is
\* its map from before the cycle overwritten with the known keys of its own
\* response.
C2_StationFailureIsolated ==
    phase = "stations" =>
        \A k \in EndedTasks :
            LET sid == stations[k]
            IN  /\ sid \in DOMAIN data.stations
                /\ TaskRaised(k) => data.stations[sid] = before.stations[sid]
                /\ TaskReturned(k) =>
                      /\ data.stations[sid].info = before.stations[sid].info
                      /\ UpdatedFrom(data.stations[sid].data,
                                     before.stations[sid].data, tasks[k].out.val)

\* A cycle whose fetches have all ended: one raised an exception that
\* _fetch_station_latest does not catch and left previous values in place,
\* another returned and changed its station's data
C2_Witness ==
    /\ phase = "stations"
    /\ EndedTasks = DOMAIN tasks
    /\ \E k, j \in DOMAIN tasks :
          /\ TaskRaised(k)
          /\ ~IsApiError(tasks[k].out)
          /\ before.stations[stations[k]].data # EmptyMap
          /\ TaskReturned(j)
          /\ data.stations[stations[j]] # before.stations[stations[j]]

\* The station task that ends in this step, if any, returned a response for
\* station sid that contains key
StationAnswerHas(sid, key) ==
    \E k \in DOMAIN tasks :
        /\ k \in DOMAIN tasks'
        /\ stations[k] = sid
        /\ tasks[k].pc # "done"
        /\ tasks'[k].pc = "done"
        /\ tasks'[k].out.kind = "return"
        /\ HasKey(tasks'[k].out.val, key)

\* The device entry dev names the metric key, as a pair of dataList or as a
\* key of its data object
EntryHas(dev, key) ==
    \/ /\ Get(dev, "dataList").t = "list"
       /\ \E i \in DOMAIN Get(dev, "dataList").v :
             Get(Get(dev, "dataList").v[i], "key") = Str(key)
    \/ /\ IsDict(Get(dev, "data"))
       /\ HasKey(Get(dev, "data"), key)

\* The serial a device entry carries
SerialOf(dev) == PyOr(Get(dev, "deviceSn"), Get(dev, "sn"))

\* The entries of a returned batch response
EntriesOf(out) ==
    IF out.kind = "return"
    THEN LET l == DevListOf(DictOrEmpty(out.val)).v
         IN  {l[i] : i \in DOMAIN l}
    ELSE {}

\* The batch call that ends in this step, if any, returned a response with an
\* entry for device sn that contains key
BatchAnswerHas(sn, key) ==
    /\ Len(batch_outs') = Len(batch_outs) + 1
    /\ \E dev \in EntriesOf(batch_outs'[Len(batch_outs')]) :
          IsDict(dev) /\ SerialOf(dev) = Str(sn) /\ EntryHas(dev, key)

\* Every key of old stays in new; ChangedKeys are those whose value differs
KeysKept(old, new) == \A key \in DOMAIN old : key \in DOMAIN new

ChangedKeys(old, new) == {key \in DOMAIN old : new[key] # old[key]}

StationKeysPersist ==
    \A sid \in DOMAIN data.stations :
        /\ sid \in DOMAIN data'.stations
        /\ KeysKept(data.stations[sid].data, data'.stations[sid].data)
        /\ \A key \in ChangedKeys(data.stations[sid].data, data'.stations[sid].data) :
              StationAnswerHas(sid, key)

DeviceKeysPersist ==
    \A sn \in DOMAIN data.devices :
        /\ sn \in DOMAIN data'.devices
        /\ KeysKept(data.devices[sn].data, data'.devices[sn].data)
        /\ \A key \in ChangedKeys(data.devices[sn].data, data'.devices[sn].data) :
              BatchAnswerHas(sn, key)

DiscoveryOver == phase \in {"stations", "devices", "ready"}

\* C3: once discovery is over, no step removes a metric key from the data map
\* of a station or of a device, and a step changes the value of a key only
\* when it is the arrival of a response for that entity that contains the key.
C3_KeysPersist ==
    [][DiscoveryOver => StationKeysPersist /\ DeviceKeysPersist]_vars

\* A station answered without currentPower and with todayEnergy: the value of
\* currentPower from before the cycle is still there next to the new metric;
\* and a device holds values of two metrics
C3_Witness ==
    /\ phase = "stations"
    /\ \E k \in EndedTasks :
          /\ TaskReturned(k)
          /\ ~HasKey(tasks[k].out.val, "currentPower")
          /\ HasKey(tasks[k].out.val, "todayEnergy")
          /\ "currentPower" \in DOMAIN before.stations[stations[k]].data
          /\ "todayEnergy" \notin DOMAIN before.stations[stations[k]].data
          /\ DOMAIN data.stations[stations[k]].data = {"currentPower", "todayEnergy"}
    /\ \E sn \in DOMAIN data.devices :
          DOMAIN data.devices[sn].data = {"batteryPower", "soc"}

MembershipSame ==
    /\ stations' = stations
    /\ devices' = devices
    /\ DOMAIN data'.stations = DOMAIN data.stations
    /\ DOMAIN data'.devices = DOMAIN data.devices

\* C4: once discovery is over, no step changes the station id list, the
\* device serial list, the keys of cache.stations or the keys of
\* cache.devices.
C4_MembershipFixed ==
    [][DiscoveryOver => MembershipSame]_vars

\* A batch response that was merged named a serial that discovery did not
\* find, next to a cache with devices: the cache has no entry for it
C4_Witness ==
    /\ phase \in {"devices", "ready"}
    /\ devices # <<>>
    /\ \E i \in DOMAIN batch_outs :
          \E dev \in EntriesOf(batch_outs[i]) :
              /\ IsDict(dev)
              /\ Truthy(SerialOf(dev))
              /\ SerialOf(dev).v \notin DOMAIN data.devices
              /\ EntryHas(dev, "soc")

\* C5: a refresh cycle runs only after a discovery that succeeded; a failed
\* discovery leaves the coordinator not ready with no cycle run; and after a
\* successful discovery the coordinator is never not ready.
C5_DiscoveryGate ==
    /\ phase \in {"stations", "devices", "ready"} => discovery = "ok"
    /\ refreshed => discovery = "ok"
    /\ discovery = "failed" => phase = "not_ready" /\ ~refreshed
    /\ discovery = "ok" => phase # "not_ready"

\* Some fetch of the last cycle ended with an exception
SomeFetchFailed == fetch_failures > 0

\* C6: between two cycles, last_update_success is false when a station fetch
\* or a device batch fetch of the last cycle failed.
C6_FailureSurfaced ==
    phase = "ready" /\ SomeFetchFailed => last_update_success = FALSE

(***************************************************************************)
(* Claims about bodies without a code field (RequestSpec)                  *)
(***************************************************************************)
NoCodeField == ~(IsDict(response_json) /\ "code" \in DOMAIN response_json.v)

\* C20: for a body without a code field, request returns the whole body when
\* the body is an object, and returns the empty object, never an exception,
\* when the body is a list, a string, a number or null.
C20_RootLevelBodies ==
    (RequestParsed /\ NoCodeField)
    => /\ request_out.kind = "return"
       /\ response_json.t = "obj" => request_out.val = response_json
       /\ response_json.t \in {"list", "str", "num", "null"}
             => request_out.val = EmptyObj

\* An object without code that carries data and msg fields was returned
\* whole
C20_Witness ==
    /\ RequestParsed
    /\ response_json = Obj([msg |-> Str("denied"), data |-> List(<<Str("S1")>>)])
    /\ request_out = Return(response_json)

C20_WitnessOtherShape ==
    /\ RequestParsed
    /\ response_json = List(<<EmptyObj>>)
    /\ request_out = Return(EmptyObj)

(***************************************************************************)
(* UrlSpec: DeyeCloudClient.__init__'s normalisation of base_url.  A URL   *)
(* is a sequence of pieces: the origin, then slashes, path segments and    *)
(* blanks.  No piece but "/" ends in a slash, so a URL ends with the       *)
(* characters "/1.0" exactly when its last two pieces are "/" and "1.0".   *)
(***************************************************************************)
Origin == "https://api.example.com"

UrlPieces == {"/", "1.0", "v1.0", "api", " "}

\* The longest tail of pieces after the origin
MaxUrlTail == 4

RECURSIVE SeqsUpTo(_, _)
SeqsUpTo(S, n) ==
    IF n = 0 THEN {<<>>}
    ELSE LET shorter == SeqsUpTo(S, n - 1)
         IN  shorter \cup {Append(q, x) : q \in shorter, x \in S}

UrlInputs == {<<Origin>> \o tail : tail \in SeqsUpTo(UrlPieces, MaxUrlTail)}

DropLast(u, n) == SubSeq(u, 1, Len(u) - n)

\* str.rstrip(chars) for a one-piece chars
RECURSIVE RStrip(_, _)
RStrip(u, piece) ==
    IF Len(u) > 0 /\ u[Len(u)] = piece THEN RStrip(DropLast(u, 1), piece) ELSE u

RECURSIVE LStrip(_, _)
LStrip(u, piece) ==
    IF Len(u) > 0 /\ u[1] = piece THEN LStrip(Tail(u), piece) ELSE u

\* str.strip()
Strip(u) == LStrip(RStrip(u, " "), " ")

\* str.endswith(suffix)
EndsWith(u, suffix) ==
    /\ Len(u) >= Len(suffix)
    /\ SubSeq(u, Len(u) - Len(suffix) + 1, Len(u)) = suffix

OldVersion == <<"/", "1.0">>

Version == <<"/", "v1.0">>

NormalizeAlwaysAppend(url) ==
    LET base == RStrip(Strip(url), "/")
    IN  IF EndsWith(base, OldVersion) THEN DropLast(base, 2) \o Version
        ELSE base \o Version

\* api.py lines 38-44
NormalizeBaseUrl(url) ==
    LET base == RStrip(Strip(url), "/")
    IN  IF EndsWith(base, OldVersion) THEN DropLast(base, 2) \o Version
        ELSE IF ~EndsWith(base, Version) THEN base \o Version
        ELSE base

UrlInit ==
    /\ ClientIdle
    /\ CoordIdle
    /\ response_json = Null
    /\ request_out = Pending
    /\ token_json = Null
    /\ token_out = Pending
    /\ base_url_in \in UrlInputs
    /\ base_url = Pending
    /\ discover_in = Null
    /\ topology = Pending
    /\ merge_in = Null
    /\ merge_out = Pending
    /\ flow_in = Null
    /\ flow_out = Pending

\* DeyeCloudClient.__init__ on base_url_in
Construct ==
    /\ base_url = Pending
    /\ base_url' = Return(NormalizeBaseUrl(base_url_in))
    /\ UNCHANGED <<clientVars, sessionVars, calls, coordVars,
                   response_json, request_out, token_json, token_out,
                   base_url_in, discover_in, topology, merge_in, merge_out,
                   flow_in, flow_out>>

UrlNext == Construct

UrlSpec == UrlInit /\ [][UrlNext]_vars

(***************************************************************************)
(* Claims about the normalised base URL (UrlSpec)                          *)
(***************************************************************************)
Constructed == base_url.kind = "return"

\* The configured URL without the blanks around it and the slashes after it
Trimmed == RStrip(Strip(base_url_in), "/")

\* The configured URL without its last segment when that is a version
Stem ==
    IF EndsWith(Trimmed, OldVersion) \/ EndsWith(Trimmed, Version)
    THEN DropLast(Trimmed, 2) ELSE Trimmed

\* The three cases of the normalisation, and its idempotence
NormalizedByCase ==
    /\ EndsWith(base_url.val, Version)
    /\ EndsWith(Trimmed, OldVersion) => base_url.val = DropLast(Trimmed, 2) \o Version
    /\ EndsWith(Trimmed, Version) => base_url.val = Trimmed
    /\ ~EndsWith(Trimmed, OldVersion) /\ ~EndsWith(Trimmed, Version)
          => base_url.val = Trimmed \o Version
    /\ NormalizeBaseUrl(base_url.val) = base_url.val

\* The URL u ends in one "/v1.0" that no other "/v1.0" precedes directly
EndsInOneVersion(u) == EndsWith(u, Version) /\ ~EndsWith(DropLast(u, 2), Version)

DiscoveryRows ==
    {Obj([stationId |-> Str("S1"), stationName |-> Str("Home"),
          deviceList |-> List(<<Obj([deviceSn |-> Str("D1"),
                                     deviceName |-> Str("Inv1")])>>)]),
     Obj([id |-> Str("S2"), name |-> Str("Barn"),
          devices |-> List(<<Obj([sn |-> Str("D1")]),
                             Obj([deviceSn |-> Str("D2"), fwVersion |-> Str("1.2")]),
                             Obj([deviceSn |-> Str("D1"), deviceName |-> Str("Inv1b")])>>)]),
     Obj([station_id |-> Str("S1"),
          deviceList |-> List(<<Obj([deviceName |-> Str("Nameless")]),
                                Obj([deviceSn |-> Str(""), sn |-> Str("D2")])>>)]),
     Obj([stationName |-> Str("Lost"),
          deviceList |-> List(<<Obj([deviceSn |-> Str("D9")])>>)]),
     Obj([stationId |-> Str(""), id |-> Str("S3"), stationName |-> Null]),
     Obj([stationId |-> Str("S5"), deviceList |-> Null,
          devices |-> List(<<Obj([sn |-> Str("D3")])>>)]),
     Obj([stationId |-> Str("S4"), deviceList |-> List(<<Null>>)]),
     Str("S2")}

\* The most rows of a station list
MaxRows == 2

DiscoveryInputs == {List(rows) : rows \in SeqsUpTo(DiscoveryRows, MaxRows)}

DiscoveryInit ==
    /\ ClientIdle
    /\ CoordIdle
    /\ response_json = Null
    /\ request_out = Pending
    /\ token_json = Null
    /\ token_out = Pending
    /\ base_url_in = Null
    /\ base_url = Pending
    /\ discover_in \in DiscoveryInputs
    /\ topology = Pending
    /\ merge_in = Null
    /\ merge_out = Pending
    /\ flow_in = Null
    /\ flow_out = Pending

\* _discover_topology on discover_in: its result, or the exception it ends
\* with and what it had built by then
Discover ==
    /\ topology = Pending
    /\ topology' = Return(DiscoverTopology(discover_in))
    /\ UNCHANGED <<clientVars, sessionVars, calls, coordVars,
                   response_json, request_out, token_json, token_out,
                   base_url_in, base_url, discover_in, merge_in, merge_out,
                   flow_in, flow_out>>

DiscoveryNext == Discover

DiscoverySpec == DiscoveryInit /\ [][DiscoveryNext]_vars

(***************************************************************************)
(* Claims about discovery (DiscoverySpec)                                  *)
(***************************************************************************)
Discovered == topology.kind = "return"

Topo == topology.val

Rows == discover_in.v

\* The first of the fields of row, in order, with a truthy value; Null
\* without one
FirstTruthy(row, fields) ==
    IF \E i \in DOMAIN fields : Truthy(Get(row, fields[i]))
    THEN Get(row, fields[CHOOSE i \in DOMAIN fields :
                            /\ Truthy(Get(row, fields[i]))
                            /\ \A j \in 1..(i - 1) : ~Truthy(Get(row, fields[j]))])
    ELSE Null

StationIdOf(row) == FirstTruthy(row, <<"stationId", "id", "station_id">>)

SerialOfRow(row) == FirstTruthy(row, <<"deviceSn", "sn">>)

\* The device rows of a station row: deviceList, else devices, else none
DeviceRowsOf(row) ==
    LET l == FirstTruthy(row, <<"deviceList", "devices">>)
    IN  IF l = Null THEN <<>> ELSE l.v

\* Every row is an object whose device rows are objects
WellFormedRows ==
    \A i \in DOMAIN Rows :
        /\ IsDict(Rows[i])
        /\ \A j \in DOMAIN DeviceRowsOf(Rows[i]) : IsDict(DeviceRowsOf(Rows[i])[j])

\* The station rows with an extractable id, in the order of the payload
RECURSIVE RowsWithId(_)
RowsWithId(rows) ==
    IF rows = <<>> THEN <<>>
    ELSE IF IsDict(Head(rows)) /\ Truthy(StationIdOf(Head(rows)))
         THEN <<Head(rows)>> \o RowsWithId(Tail(rows))
         ELSE RowsWithId(Tail(rows))

\* The serials of the device rows of the station rows that have an id
SerialsUnder(row) ==
    {SerialOfRow(DeviceRowsOf(row)[j]).v :
        j \in {j \in DOMAIN DeviceRowsOf(row) :
                  /\ IsDict(DeviceRowsOf(row)[j])
                  /\ Truthy(SerialOfRow(DeviceRowsOf(row)[j]))}}

DiscoveredSerials ==
    UNION {SerialsUnder(RowsWithId(Rows)[i]) : i \in DOMAIN RowsWithId(Rows)}

\* C13: after discovery, whatever the payload lists and however it ends, no
\* serial is in the device serial list twice.
C13_SerialsUnique ==
    Discovered =>
        \A i, j \in DOMAIN Topo.devices :
            Topo.devices[i] = Topo.devices[j] => i = j

\* D1 was listed under two stations and twice under one of them
C13_Witness ==
    /\ Discovered
    /\ Len(Rows) = 2
    /\ \A i \in {1, 2} : IsDict(Rows[i]) /\ Truthy(StationIdOf(Rows[i]))
    /\ StationIdOf(Rows[1]) # StationIdOf(Rows[2])
    /\ DeviceRowsOf(Rows[1]) = <<Obj([deviceSn |-> Str("D1"), deviceName |-> Str("Inv1")])>>
    /\ Len(DeviceRowsOf(Rows[2])) = 3
    /\ SerialOfRow(DeviceRowsOf(Rows[2])[1]) = Str("D1")
    /\ SerialOfRow(DeviceRowsOf(Rows[2])[3]) = Str("D1")
    /\ Topo.devices = <<"D1", "D2">>

\* The payload of the end-to-end example
ExampleDiscovery ==
    List(<<Obj([stationId |-> Str("S1"), stationName |-> Str("Home"),
                deviceList |-> List(<<Obj([deviceSn |-> Str("D1"),
                                           deviceName |-> Str("Inv1")])>>)])>>)

StationEntry(m) == [info |-> [name |-> Str("Home")], data |-> m]

DeviceEntry(m) ==
    [info |-> [deviceName |-> Str("Inv1"), deviceModel |-> Null,
               firmwareVersion |-> Null, stationId |-> "S1"],
     data |-> m]

MergeStationCaches ==
    {[S1 |-> StationEntry(m)] :
        m \in {EmptyMap, [currentPower |-> Num(1)],
               [currentPower |-> Num(2), todayEnergy |-> Num(5)]}}

MergeStationPayloads ==
    {EmptyObj, Obj([currentPower |-> Num(1)]),
     Obj([currentPower |-> Num(2), stationName |-> Str("Home")]),
     Obj([todayEnergy |-> Num(5), gridPower |-> Null]),
     Obj([code |-> Num(0), data |-> Null])}

MergeDeviceCaches ==
    {[D1 |-> DeviceEntry(m)] :
        m \in {EmptyMap, [batteryPower |-> Num(150)]}}
    \cup {[D1 |-> DeviceEntry(m), D2 |-> DeviceEntry(n)] :
            m \in {EmptyMap, [batteryPower |-> Num(151), soc |-> Num(80)]},
            n \in {EmptyMap, [soc |-> Num(80)]}}

MergeDeviceEntries ==
    SpecDeviceEntries
    \cup {Obj([deviceSn |-> Str("D1"), dataList |-> List(<<KeyValue("soc", 82)>>),
               data |-> Obj([batteryPower |-> Num(152)])]),
          Obj([deviceSn |-> Str("D2"), data |-> Obj([soc |-> Num(81)])]),
          Obj([deviceSn |-> Str("D1"),
               dataList |-> List(<<KeyValue("soc", 1), KeyValue("soc", 2),
                                   Obj([value |-> Num(3)])>>)]),
          Obj([deviceSn |-> Str("D1"),
               dataList |-> List(<<Obj([value |-> Num(3)])>>),
               data |-> Obj([soc |-> Num(9)])]),
          Obj([data |-> Obj([soc |-> Num(7)])])}

\* The most entries of a batch response
MaxEntries == 2

\* The metric maps M of the two response shapes
ShapeKeys == {"batteryPower", "soc"}

ShapeValues == {Num(150), Num(0), Null}

ShapeMaps ==
    UNION {[keys -> ShapeValues] : keys \in SUBSET ShapeKeys}

MergeInputs ==
    {[kind |-> "station", cache |-> c, payload |-> p] :
        c \in MergeStationCaches, p \in MergeStationPayloads}
    \cup {[kind |-> "devices", cache |-> c, payload |-> l] :
            c \in MergeDeviceCaches,
            l \in SeqsUpTo(MergeDeviceEntries, MaxEntries)}
    \cup {[kind |-> "shapes", cache |-> c, payload |-> m] :
            c \in MergeDeviceCaches, m \in ShapeMaps}

MergeInit ==
    /\ ClientIdle
    /\ CoordIdle
    /\ response_json = Null
    /\ request_out = Pending
    /\ token_json = Null
    /\ token_out = Pending
    /\ base_url_in = Null
    /\ base_url = Pending
    /\ discover_in = Null
    /\ topology = Pending
    /\ merge_in \in MergeInputs
    /\ merge_out = Pending
    /\ flow_in = Null
    /\ flow_out = Pending

MergeUnchanged ==
    UNCHANGED <<clientVars, sessionVars, calls, coordVars,
                response_json, request_out, token_json, token_out,
                base_url_in, base_url, discover_in, topology, merge_in,
                flow_in, flow_out>>

\* The station response merge_in.payload merged into the cache, and merged
\* into the result again
MergeStationTwice ==
    /\ merge_out = Pending
    /\ merge_in.kind = "station"
    /\ LET once == MergeStation(merge_in.cache, "S1", merge_in.payload)
       IN  merge_out' = Return([once |-> once,
                                twice |-> MergeStation(once, "S1", merge_in.payload)])
    /\ MergeUnchanged

\* The entries merge_in.payload of a batch response merged into the cache,
\* and merged into the result again
MergeDevicesTwice ==
    /\ merge_out = Pending
    /\ merge_in.kind = "devices"
    /\ LET once == MergeDevices(merge_in.cache, merge_in.payload, 1)
       IN  merge_out' = Return([once |-> once.ddata,
                                twice |-> MergeDevices(once.ddata, merge_in.payload, 1).ddata])
    /\ MergeUnchanged

\* The keys of a map in some order
RECURSIVE KeysInOrder(_)
KeysInOrder(keys) ==
    IF keys = {} THEN <<>>
    ELSE LET k == CHOOSE k \in keys : TRUE
         IN  <<k>> \o KeysInOrder(keys \ {k})

\* A batch response for D1 that carries the map m as dataList pairs
AsDataList(m) ==
    LET ks == KeysInOrder(DOMAIN m)
    IN  Obj([deviceDataList |-> List(<<
            Obj([deviceSn |-> Str("D1"),
                 dataList |-> List([i \in DOMAIN ks |->
                                      Obj([key |-> Str(ks[i]), value |-> m[ks[i]]])])])>>)])

\* A batch response for D1 that carries the map m as the flat data object
AsFlatData(m) ==
    Obj([deviceDataList |-> List(<<Obj([deviceSn |-> Str("D1"), data |-> Obj(m)])>>)])

\* The map merge_in.payload sent in each of the two shapes and merged into
\* the same cache
MergeShapes ==
    /\ merge_out = Pending
    /\ merge_in.kind = "shapes"
    /\ merge_out' =
          Return([kv |-> MergeDevices(merge_in.cache,
                                      DevListOf(AsDataList(merge_in.payload)).v, 1).ddata,
                  flat |-> MergeDevices(merge_in.cache,
                                        DevListOf(AsFlatData(merge_in.payload)).v, 1).ddata])
    /\ MergeUnchanged

MergeNext ==
    \/ MergeStationTwice
    \/ MergeDevicesTwice
    \/ MergeShapes

MergeSpec == MergeInit /\ [][MergeNext]_vars

(***************************************************************************)
(* Claims about the merges (MergeSpec)                                     *)
(***************************************************************************)
Merged == merge_out.kind = "return"

\* C15: merging a station payload or the entries of a batch response twice
\* in a row leaves the cache as merging it once does.
C15_MergeIdempotent ==
    (Merged /\ merge_in.kind \in {"station", "devices"})
    => merge_out.val.twice = merge_out.val.once

\* A batch response that changed two values of D1 was merged twice
C15_Witness ==
    /\ Merged
    /\ merge_in.kind = "devices"
    /\ "D1" \in DOMAIN merge_in.cache
    /\ merge_in.cache["D1"].data = [batteryPower |-> Num(151), soc |-> Num(80)]
    /\ merge_out.val.once["D1"].data = [batteryPower |-> Num(150), soc |-> Num(2)]
    /\ merge_out.val.twice = merge_out.val.once

\* A station payload that changed a value was merged twice
C15_WitnessStation ==
    /\ Merged
    /\ merge_in.kind = "station"
    /\ merge_in.cache["S1"].data = [currentPower |-> Num(2), todayEnergy |-> Num(5)]
    /\ merge_out.val.once["S1"].data = [currentPower |-> Num(1), todayEnergy |-> Num(5)]
    /\ merge_out.val.twice = merge_out.val.once

\* C16: a map M of metrics for the known device D1 gives the same device
\* data whether the batch response carries it as dataList pairs or as the flat
\* data object, and that data is the cache's data overwritten with M;
\* {batteryPower: 150} as dataList gives data[batteryPower] = 150.
C16_ShapesAgree ==
    (Merged /\ merge_in.kind = "shapes")
    => /\ merge_out.val.kv = merge_out.val.flat
       /\ DOMAIN merge_out.val.kv = DOMAIN merge_in.cache
       /\ \A k \in DOMAIN merge_in.payload :
             /\ k \in DOMAIN merge_out.val.kv["D1"].data
             /\ merge_out.val.kv["D1"].data[k] = merge_in.payload[k]
       /\ \A k \in DOMAIN merge_in.cache["D1"].data \ DOMAIN merge_in.payload :
             /\ k \in DOMAIN merge_out.val.kv["D1"].data
             /\ merge_out.val.kv["D1"].data[k] = merge_in.cache["D1"].data[k]

\* The example of the claim, into a cache that had nothing for D1
C16_Witness ==
    /\ Merged
    /\ merge_in.kind = "shapes"
    /\ merge_in.payload = [batteryPower |-> Num(150)]
    /\ merge_in.cache["D1"].data = EmptyMap
    /\ merge_out.val.kv["D1"].data = [batteryPower |-> Num(150)]
    /\ merge_out.val.flat["D1"].data = [batteryPower |-> Num(150)]

(***************************************************************************)
(* BatchLimitSpec: callers of get_device_latest_data on one client         *)
(***************************************************************************)
\* How many serials a caller passes
SerialCounts == {0, 1, MaxSerialsPerRequest, MaxSerialsPerRequest + 1}

DeviceLatestBodies ==
    {Envelope(Obj([deviceDataList |-> List(<<
        Obj([deviceSn |-> Str("D1"),
             dataList |-> List(<<KeyValue("batteryPower", 150)>>)])>>)])),
     Obj([code |-> Num(2101), msg |-> Str("busy")])}

\* A caller calls get_device_latest_data with n serials; _request, and with
\* it _get_session, is reached only past the length check
CallDeviceLatest(c, n) ==
    /\ calls[c].pc = "idle"
    /\ calls' = [calls EXCEPT
                    ![c] = BeginDeviceLatest(access_token, token_expiry, now, n)]
    /\ IF calls'[c].pc = "done"
       THEN UNCHANGED sessionVars
       ELSE GetSession
    /\ UNCHANGED <<clientVars, pureVars, coordVars>>

BatchLimitNext ==
    \/ \E c \in Callers, n \in SerialCounts : CallDeviceLatest(c, n)
    \/ \E c \in Callers, e \in NetEventsOf(SpecFailures, SpecTokenBodies) :
          TokenResponse(c, e)
    \/ \E c \in Callers, e \in NetEventsOf(SpecFailures, DeviceLatestBodies) :
          EndpointResponse(c, e)
    \/ \E c \in Callers : Collect(c)
    \/ AdvanceClock

BatchLimitSpec == ClientInit /\ [][BatchLimitNext]_vars

(***************************************************************************)
(* Claims about the serial limit of get_device_latest_data                 *)
(* (BatchLimitSpec)                                                        *)
(***************************************************************************)
\* Caller c's call of get_device_latest_data begins in this step
DeviceLatestBegins(c) ==
    calls[c].pc = "idle" /\ calls'[c].op = "get_device_latest_data"

\* Caller c's call of get_device_latest_data has ended
DeviceLatestEnded(c) ==
    calls[c].op = "get_device_latest_data" /\ calls[c].pc = "done"

\* A call with more than 10 serials ends in the step it begins in, with a
\* ValueError, without a token request, an endpoint request or a session,
\* and leaves the token state as it was
TooManyFailsFast ==
    \A c \in DOMAIN calls :
        (DeviceLatestBegins(c) /\ calls'[c].serials > 10)
        => /\ calls'[c].pc = "done"
           /\ calls'[c].out.kind = "raise"
           /\ calls'[c].out.exc = "ValueError"
           /\ calls'[c].nauth = 0
           /\ calls'[c].nsent = 0
           /\ access_token' = access_token
           /\ token_expiry' = token_expiry
           /\ session' = session

\* A call with at most 10 serials does not end in the step it begins in
WithinLimitGoesOut ==
    \A c \in DOMAIN calls :
        (DeviceLatestBegins(c) /\ calls'[c].serials <= 10)
        => calls'[c].pc \in {"auth", "req"}

\* C11 as stated: more than 10 serials fail with a precondition error before
\* any network call, the token state unchanged; a call with 0 to 10 serials
\* that has ended has issued exactly one endpoint request.
C11_LimitAndExactlyOneRequest ==
    [][/\ TooManyFailsFast
       /\ WithinLimitGoesOut
       /\ \A c \in DOMAIN calls' :
             (DeviceLatestEnded(c)' /\ calls'[c].serials <= 10)
             => calls'[c].nsent = 1]_vars

\* C11, amended: as above, but a call with 0 to 10 serials issues at most one
\* endpoint request: exactly one unless the token request it had to make
\* first failed, and then none.
C11_LimitAndOneRequest ==
    [][/\ TooManyFailsFast
       /\ WithinLimitGoesOut
       /\ \A c \in DOMAIN calls' :
             (DeviceLatestEnded(c)' /\ calls'[c].serials <= 10)
             => \/ calls'[c].nsent = 1
                \/ /\ calls'[c].nsent = 0
                   /\ calls'[c].nauth = 1
                   /\ ~calls'[c].auth_done
                   /\ calls'[c].out.kind = "raise"]_vars

\* A call with 11 serials has failed on a client whose token a call with 10
\* serials had obtained, and that call has its result
C11_Witness ==
    \E c, d \in DOMAIN calls :
        /\ DeviceLatestEnded(c)
        /\ calls[c].serials = 11
        /\ calls[c].out.exc = "ValueError"
        /\ calls[c].nauth = 0 /\ calls[c].nsent = 0
        /\ DeviceLatestEnded(d)
        /\ calls[d].serials = 10
        /\ calls[d].nauth = 1 /\ calls[d].nsent = 1
        /\ calls[d].out.kind = "return"
        /\ Truthy(access_token)

(***************************************************************************)
(* BatchesSpec: the coordinator on a plant whose devices need two batch    *)
(* requests.  The vendor answers a batch request with entries for serials  *)
(* of that batch.                                                          *)
(***************************************************************************)
\* The serials D1 .. D11: one more than a batch holds
ManySerials == [i \in 1..(MAX_SN_PER_BATCH + 1) |-> "D" \o ToString(i)]

ManyDevicesBody ==
    Envelope(Obj([stationList |-> List(<<
        StationRow("S1", "Home", [i \in DOMAIN ManySerials |-> DeviceRow(ManySerials[i])])>>)]))

\* batch = self.devices[i : i + MAX_SN_PER_BATCH], i counted from 0
BatchSerials(devs, i) ==
    {devs[k] : k \in {k \in DOMAIN devs : i < k /\ k <= i + MAX_SN_PER_BATCH}}

\* Answers to the request for the batch at i: one entry for its first serial
BatchBodiesAt(i) ==
    IF i + 1 \in DOMAIN devices
    THEN {Envelope(Obj([deviceDataList |-> List(<<
              Obj([deviceSn |-> Str(devices[i + 1]),
                   dataList |-> List(<<KeyValue("soc", v)>>)])>>)])) : v \in {80, 81}}
         \cup {Obj([code |-> Num(2101), msg |-> Str("busy")])}
    ELSE {}

\* Plants of eleven, ten and no devices
BatchesDiscoveryBodies ==
    {ManyDevicesBody,
     Envelope(Obj([stationList |-> List(<<
        StationRow("S1", "Home",
                   [i \in 1..MAX_SN_PER_BATCH |-> DeviceRow(ManySerials[i])])>>)])),
     Envelope(Obj([stationList |-> List(<<StationRow("S1", "Home", <<>>)>>)]))}

BatchesNext ==
    \/ StartUp
    \/ \E e \in NetEventsOf(SpecFailures,
                            SpecTokenBodies \cup BatchesDiscoveryBodies) :
          DiscoveryStep(e)
    \/ \E k \in 1..MaxStations,
          e \in NetEventsOf(SpecFailures, SpecTokenBodies \cup SpecStationBodies) :
          StationStep(k, e)
    \/ StationsGathered
    \/ \E e \in NetEventsOf(SpecFailures, SpecTokenBodies \cup BatchBodiesAt(batch_i)) :
          BatchStep(e)
    \/ ScheduledRefresh
    \/ ClockTick

BatchesSpec == Init /\ [][BatchesNext]_vars

(***************************************************************************)
(* Claims about a failed device batch (BatchesSpec)                        *)
(***************************************************************************)
\* The batches a cycle has to request
NBatches == (Len(devices) + MAX_SN_PER_BATCH - 1) \div MAX_SN_PER_BATCH

\* The cycle's batch fetches that raised, by their place in the loop
FailedBatches == {i \in DOMAIN batch_outs : batch_outs[i].kind = "raise"}

CycleOver == discovery = "ok" /\ phase \in {"ready", "not_ready"}

\* C12: when a cycle in which a batch fetch failed is over, every batch was
\* requested, the cycle ended without raising, and the devices of a failed
\* batch have the data they had when the batches began.
C12_BatchFailureContained ==
    (CycleOver /\ FailedBatches # {})
    => /\ Len(batch_outs) = NBatches
       /\ last_update_success
       /\ phase = "ready"
       /\ \A i \in FailedBatches :
             \A sn \in BatchSerials(devices, (i - 1) * MAX_SN_PER_BATCH) :
                 data.devices[sn] = before.devices[sn]

\* Where C12 does hold: the first batch failed with a DeyeCloudApiError, the
\* second was requested and merged
C12_CaughtFailure ==
    /\ CycleOver
    /\ Len(batch_outs) = 2
    /\ IsApiError(batch_outs[1])
    /\ batch_outs[2].kind = "return"
    /\ data.devices["D11"].data # before.devices["D11"].data
    /\ data.devices["D1"] = before.devices["D1"]
    /\ last_update_success

(***************************************************************************)
(* Claims about the batches of a cycle (BatchesSpec)                       *)
(***************************************************************************)
\* The batch requests of the cycle so far, the one in flight included
NRequested == Len(batch_outs) + (IF phase = "devices" THEN 1 ELSE 0)

\* The batch the loop requests at its j-th turn
RequestedBatch(j) == BatchAt(devices, (j - 1) * MAX_SN_PER_BATCH)

\* The turns of the loop, so far, whose batch holds the serial sn
TurnsWith(sn) ==
    {j \in 1..NRequested :
        \E k \in DOMAIN RequestedBatch(j) : RequestedBatch(j)[k] = sn}

\* The request in flight carries the loop's batch, of one to ten serials, and
\* no serial was requested twice in the cycle
BatchesWithinLimit ==
    discovery = "ok" =>
        /\ phase = "devices" =>
              /\ main_call.op = "get_device_latest_data"
              /\ main_call.serials \in 1..MAX_SN_PER_BATCH
              /\ main_call.serials = Len(RequestedBatch(NRequested))
              /\ batch_i = Len(batch_outs) * MAX_SN_PER_BATCH
        /\ \A k \in DOMAIN devices : Cardinality(TurnsWith(devices[k])) <= 1

\* C22: every batch request of a cycle carries one to ten serials, and when
\* the cycle is over every discovered serial was in exactly one batch and
\* ceil(n/10) batch requests were made for the n devices
C22_BatchesPartition ==
    /\ BatchesWithinLimit
    /\ CycleOver =>
          /\ NRequested = NBatches
          /\ \A k \in DOMAIN devices : Cardinality(TurnsWith(devices[k])) = 1

\* A cycle over eleven devices that made its two requests, of ten serials
\* and of one
C22_TwoBatches ==
    /\ CycleOver
    /\ Len(devices) = MAX_SN_PER_BATCH + 1
    /\ NRequested = 2
    /\ Len(RequestedBatch(1)) = MAX_SN_PER_BATCH
    /\ RequestedBatch(2) = <<"D11">>

(***************************************************************************)
(* FrameSpec: the coordinator on plants of several stations or of two      *)
(* batches, the vendor answering a batch request with entries for serials  *)
(* of the batch or of the other batch                                      *)
(***************************************************************************)
\* A serial of the plant that is not in the batch at i
ForeignSerial(i) == IF i = 0 THEN devices[Len(devices)] ELSE devices[1]

\* Answers to the request for the batch at i that list a serial outside it
ForeignBodiesAt(i) ==
    IF Len(devices) > MAX_SN_PER_BATCH
    THEN {Envelope(Obj([deviceDataList |-> List(<<
              Obj([deviceSn |-> Str(ForeignSerial(i)),
                   dataList |-> List(<<KeyValue("soc", 50)>>)])>>)]))}
    ELSE {}

FrameNext ==
    \/ StartUp
    \/ \E e \in NetEventsOf(SpecFailures,
                            SpecTokenBodies \cup SpecDiscoveryBodies
                            \cup {ManyDevicesBody}) :
          DiscoveryStep(e)
    \/ \E k \in 1..MaxStations,
          e \in NetEventsOf(SpecFailures, SpecTokenBodies \cup SpecStationBodies) :
          StationStep(k, e)
    \/ StationsGathered
    \/ \E e \in NetEventsOf(SpecFailures,
                            SpecTokenBodies \cup BatchBodiesAt(batch_i)
                            \cup ForeignBodiesAt(batch_i)) :
          BatchStep(e)
    \/ ScheduledRefresh
    \/ ClockTick

FrameSpec == Init /\ [][FrameNext]_vars

\* The station ids whose fetch ends in this step
StationsEnding ==
    {stations[k] : k \in {j \in DOMAIN tasks :
                             tasks[j].pc # "done" /\ tasks'[j].pc = "done"}}

\* The entries of the map old that the map new has changed, added or dropped
Rewritten(old, new) ==
    {id \in DOMAIN old \cup DOMAIN new :
        id \notin DOMAIN old \/ id \notin DOMAIN new \/ old[id] # new[id]}

\* Of the entry id only the data changed
OnlyData(old, new, id) ==
    id \in DOMAIN old /\ id \in DOMAIN new /\ old[id].info = new[id].info

\* The station fetches of this step wrote only the data of their station
StationFrame ==
    phase = "stations" =>
        /\ data'.devices = data.devices
        /\ \A s \in Rewritten(data.stations, data'.stations) :
              s \in StationsEnding /\ OnlyData(data.stations, data'.stations, s)

\* The batch fetch of this step wrote only the data of devices of its batch
BatchFrame ==
    phase = "devices" =>
        /\ data'.stations = data.stations
        /\ \A sn \in Rewritten(data.devices, data'.devices) :
              /\ sn \in BatchSerials(devices, batch_i)
              /\ OnlyData(data.devices, data'.devices, sn)

\* C23: a station fetch changes nothing of the cache but the data of its
\* station, a batch fetch nothing but the data of the devices of its batch
C23_OwnSubtreeOnly == [][StationFrame /\ BatchFrame]_vars

\* The part of C23 about the station fetches
StationFrameHolds == [][StationFrame]_vars

\* A fetch of the first batch has written the data of the eleventh device
C23_ForeignWrite ==
    /\ phase = "devices"
    /\ batch_i = MAX_SN_PER_BATCH
    /\ Len(batch_outs) = 1
    /\ data.devices["D11"].data # before.devices["D11"].data

(***************************************************************************)
(* Claims about the concurrency of a cycle's fetches (FrameSpec)           *)
(***************************************************************************)
InFlight(call) == call.pc \in {"auth", "req"}

\* C24: the station fetches of a cycle are started together, so are its
\* batch fetches (while batch fetches are under way every batch of the cycle
\* has been requested), and the cycle is over only when none is in flight
C24_FanOutFanIn ==
    discovery = "ok" =>
        /\ phase = "stations" => Len(tasks) = Len(stations)
        /\ phase = "devices" => NRequested = NBatches
        /\ CycleOver =>
              ~InFlight(main_call) /\ \A k \in DOMAIN tasks : ~InFlight(tasks[k])

\* What the batch loop does instead: the request for a batch is made when
\* the fetches of all batches before it have ended
BatchesInTurn ==
    (discovery = "ok" /\ phase = "devices") =>
        /\ batch_i = Len(batch_outs) * MAX_SN_PER_BATCH
        /\ NRequested = Len(batch_outs) + 1

\* Two station requests of a cycle in flight at the same time
C24_StationsTogether ==
    /\ phase = "stations"
    /\ Len(tasks) = 2
    /\ \A k \in DOMAIN tasks : tasks[k].pc = "req"

(***************************************************************************)
(* SessionSpec: requests and close() calls on one client, built with or    *)
(* without a session of the caller                                         *)
(***************************************************************************)
MaxResources == 2

MaxCloses == 2

\* if self._close_session: (no look at self._session)
CloseActsUnguarded(cs, s) == cs

\* if self._close_session and self._session:
CloseActs(cs, s) == cs /\ s # "none"

\* DeyeCloudClient.__init__(..., session): self._session = session,
\* self._close_session = False
SessionInit ==
    /\ access_token = Null
    /\ token_expiry = 0
    /\ now = 0
    /\ \/ session = "none" /\ resources = <<>>
       \/ session = "external" /\ resources = <<NewResource("caller")>>
    /\ close_session = FALSE
    /\ calls = [c \in Callers |-> IdleCall]
    /\ PureIdle
    /\ CoordIdle

\* One more close() call has been made on the client
Counted(rs) ==
    [i \in 1..Len(rs) |->
        [owner |-> rs[i].owner, open |-> rs[i].open,
         closes |-> rs[i].closes + 1, closed_at |-> rs[i].closed_at]]

\* ClientSession.close() on the session i: an open session is closed, a
\* closed one is left as it is
SessionClosed(rs, i) ==
    [k \in 1..Len(rs) |->
        IF k = i /\ rs[k].open
        THEN [owner |-> rs[k].owner, open |-> FALSE,
              closes |-> rs[k].closes, closed_at |-> rs[k].closes]
        ELSE rs[k]]

CloseCall == [IdleCall EXCEPT !.op = "close"]

\* The session self._session refers to: the caller's, or the last one created
CurrentResource == Len(resources)

\* A caller makes a request while the client has no session: _get_session
\* creates one (at most MaxResources are followed)
SessionRequest(c, require_auth) ==
    /\ session = "none" => Len(resources) < MaxResources
    /\ CallRequest(c, require_auth)

\* A caller calls close(), none being in progress, up to its await: the
\* guard, then self._session.close() (AttributeError on None)
CallClose(c) ==
    /\ calls[c].pc = "idle"
    /\ \A d \in Callers : calls[d].pc # "closing"
    /\ \A i \in DOMAIN resources : resources[i].closes < MaxCloses
    /\ IF CloseActs(close_session, session)
       THEN IF session = "none"
            THEN /\ calls' = [calls EXCEPT
                                 ![c] = Finish(CloseCall, "none",
                                               Raise("AttributeError",
                                                     "close of None"))]
                 /\ resources' = Counted(resources)
            ELSE /\ calls' = [calls EXCEPT
                                 ![c] = [CloseCall EXCEPT !.pc = "closing"]]
                 /\ resources' = SessionClosed(Counted(resources),
                                               CurrentResource)
       ELSE /\ calls' = [calls EXCEPT
                            ![c] = Finish(CloseCall, "none", Return(Null))]
            /\ resources' = Counted(resources)
    /\ UNCHANGED <<clientVars, session, close_session, pureVars, coordVars>>

\* close() after its await: self._session = None
CloseDone(c) ==
    /\ calls[c].pc = "closing"
    /\ session' = "none"
    /\ calls' = [calls EXCEPT ![c] = Finish(calls[c], "none", Return(Null))]
    /\ UNCHANGED <<clientVars, close_session, resources, pureVars, coordVars>>

SessionNext ==
    \/ \E c \in Callers, require_auth \in BOOLEAN :
          SessionRequest(c, require_auth)
    \/ \E c \in Callers : CallClose(c)
    \/ \E c \in Callers : CloseDone(c)
    \/ \E c \in Callers, e \in NetEventsOf(SpecFailures, SpecTokenBodies) :
          TokenResponse(c, e)
    \/ \E c \in Callers, e \in NetEventsOf(SpecFailures, DeviceLatestBodies) :
          EndpointResponse(c, e)
    \/ \E c \in Callers : Collect(c)

SessionSpec == SessionInit /\ [][SessionNext]_vars

CloseReturned(c) ==
    calls[c].op = "close" /\ calls[c].pc = "done"

\* C17: the client never closes a session the caller supplied; a session the
\* client created is open until the first close() made after its creation,
\* which closes it, and no later close() does; every close() call returns,
\* whatever was called before it
C17_CloseRespectsOwnership ==
    /\ \A i \in DOMAIN resources :
          LET r == resources[i]
          IN  /\ r.owner = "caller" => r.open
              /\ r.owner = "client" /\ r.closes = 0 => r.open
              /\ r.owner = "client" /\ r.closes >= 1 =>
                    ~r.open /\ r.closed_at = 1
    /\ \A c \in Callers : CloseReturned(c) => calls[c].out.kind = "return"

\* Two sessions of the client, each closed by the first close() after it, and
\* a close() that returned with nothing left to close
C17_Witness ==
    /\ Len(resources) = 2
    /\ \A i \in DOMAIN resources :
          resources[i].owner = "client" /\ ~resources[i].open
    /\ resources[1].closes = MaxCloses
    /\ session = "none"
    /\ \E c \in Callers : CloseReturned(c) /\ calls[c].out.kind = "return"

\* A session of the caller, open after two close() calls
C17_WitnessExternal ==
    /\ session = "external"
    /\ resources[1].owner = "caller"
    /\ resources[1].closes = MaxCloses
    /\ resources[1].open
    /\ \E c \in Callers : CloseReturned(c)

(***************************************************************************)
(* ConfigFlowSpec: DeyeCloudConfigFlow.async_step_user on one submission   *)
(***************************************************************************)
\* The parameters of DeyeCloudClient.__init__ that have no default
RequiredArgs == {"base_url", "app_id", "app_secret", "email", "password"}

\* The keyword arguments async_step_user constructs the client with
FlowArgs == {"app_id", "app_secret"}

\* A call of DeyeCloudClient(...) with the keyword arguments args: Python
\* raises TypeError when a parameter without default is not given
NewClient(args) ==
    IF RequiredArgs \subseteq args
    THEN Return(Null)
    ELSE Raise("TypeError", Str("missing required positional arguments"))

\* What the form offers: app id, app secret and an optional scan interval
FlowInputs ==
    {Null}
    \cup {StripAbsent([app_id |-> a, app_secret |-> s, scan_interval |-> n]) :
            a \in {Str("A1"), Str("A2")}, s \in {Str("S1"), Str("S2")},
            n \in {Absent, Num(30), Num(3600)}}

\* async_create_entry(title, data, options)
CreateEntry(user_input) ==
    [type |-> "create_entry", errors |-> "none",
     data |-> Obj([app_id |-> Get(user_input, "app_id"),
                   app_secret |-> Get(user_input, "app_secret")]),
     options |-> Obj([scan_interval |->
                        GetD(user_input, "scan_interval",
                             Str("DEFAULT_SCAN_INTERVAL"))])]

\* async_show_form(step_id="user", errors=errors)
ShowForm(base) ==
    [type |-> "form", errors |-> base, data |-> Null, options |-> Null]

\* except DeyeCloudAuthError / except Exception
FlowErrorOf(out) == IF IsAuthError(out) THEN "invalid_auth" ELSE "unknown"

\* obtain_token() of a new client when the vendor's answer is e
TokenOutcome(e) ==
    IF e.kind # "body"
    THEN TransportFailure(IdleCall, e.kind).out
    ELSE ObtainTokenEffect(e.body, 0, 0).out

\* test_connection() of a new client when the vendor's answer is e
TestConnection(e) == Finish(BeginTestConnection, e.kind, TokenOutcome(e)).out

\* async_step_user(user_input) with the client constructed from args, the
\* vendor answering the token request with e
StepUserWith(args, user_input, e) ==
    IF user_input = Null THEN ShowForm("none")
    ELSE LET client == NewClient(args)
         IN  IF client.kind = "raise" THEN ShowForm(FlowErrorOf(client))
             ELSE IF TestConnection(e).val.v
                  THEN CreateEntry(user_input)
                  ELSE ShowForm("cannot_connect")

StepUser(user_input, e) == StepUserWith(FlowArgs, user_input, e)

ConfigFlowInit ==
    /\ ClientIdle
    /\ CoordIdle
    /\ response_json = Null
    /\ request_out = Pending
    /\ token_json = Null
    /\ token_out = Pending
    /\ base_url_in = Null
    /\ base_url = Pending
    /\ discover_in = Null
    /\ topology = Pending
    /\ merge_in = Null
    /\ merge_out = Pending
    /\ flow_in \in [user_input : FlowInputs,
                    answer : NetEvents(ClientTokenBodies)]
    /\ flow_out = Pending

\* The user submits the form
AsyncStepUser ==
    /\ flow_out = Pending
    /\ flow_out' = Return(StepUser(flow_in.user_input, flow_in.answer))
    /\ UNCHANGED <<clientVars, sessionVars, calls, coordVars,
                   response_json, request_out, token_json, token_out,
                   base_url_in, base_url, discover_in, topology,
                   merge_in, merge_out, flow_in>>

ConfigFlowNext == AsyncStepUser

ConfigFlowSpec == ConfigFlowInit /\ [][ConfigFlowNext]_vars

Submitted == flow_out.kind = "return" /\ flow_in.user_input # Null

\* The failure is a transport failure or a timeout
TransportOrTimeout(e) == e.kind \in {"ClientError", "TimeoutError"}

\* C18: a submission the vendor accepts creates the entry; one whose
\* authentication fails with DeyeCloudAuthError is rejected with invalid_auth,
\* one that meets a transport failure or a timeout with cannot_connect, and
\* unknown is the reason of other failures only
C18_SpecificReason ==
    Submitted =>
        LET e == flow_in.answer
            out == TokenOutcome(e)
            step == flow_out.val
        IN  /\ out.kind = "return" => step.type = "create_entry"
            /\ IsAuthError(out) =>
                  step.type = "form" /\ step.errors = "invalid_auth"
            /\ TransportOrTimeout(e) =>
                  step.type = "form" /\ step.errors = "cannot_connect"
            /\ step.errors = "unknown" =>
                  /\ out.kind = "raise"
                  /\ ~IsAuthError(out)
                  /\ ~TransportOrTimeout(e)

\* Every submission made is answered with the form and the reason unknown
C18_AlwaysUnknown ==
    Submitted => flow_out.val.type = "form" /\ flow_out.val.errors = "unknown"

\* A submission the vendor would accept, answered
C18_ValidSubmitted ==
    Submitted /\ TokenOutcome(flow_in.answer).kind = "return"

(***************************************************************************)
(* ExpirySpec: authenticated requests over the lifetime of a token         *)
(***************************************************************************)
\* The times requests are made at: around a day and around the sixtieth day
ExpiryGrid ==
    {0, ExpiryMargin, ExpiresIn - ExpiryMargin, ExpiresIn,
     ExpiresIn + ExpiryMargin}

\* The token the vendor issues at time t
TokenAt(t) == Str("T" \o ToString(t))

\* The answers of the vendor to a token request handled at time t
TokensAt(t) ==
    {Obj([accessToken |-> TokenAt(t)]),
     Obj([code |-> Num(1001), msg |-> Str("denied")])}

\* time.time() advances
ExpiryTick ==
    /\ \E t \in ExpiryGrid : t > now /\ now' = t
    /\ UNCHANGED <<access_token, token_expiry, sessionVars, calls, pureVars,
                   coordVars>>

ExpiryNext ==
    \/ \E c \in Callers : CallRequest(c, TRUE)
    \/ \E c \in Callers, e \in NetEventsOf(SpecFailures, TokensAt(now)) :
          TokenResponse(c, e)
    \/ \E c \in Callers, e \in NetEventsOf(SpecFailures, DeviceLatestBodies) :
          EndpointResponse(c, e)
    \/ \E c \in Callers : Collect(c)
    \/ ExpiryTick

ExpirySpec == ClientInit /\ [][ExpiryNext]_vars

\* The time the token tok was obtained at
BornAt(tok) == CHOOSE t \in ExpiryGrid : tok = TokenAt(t)

\* The stored expiry is the time the stored token was obtained at plus
\* sixty days minus one day
ExpiryStored ==
    Truthy(access_token) =>
        token_expiry = BornAt(access_token) + ExpiresIn - ExpiryMargin

\* The call of c sends its endpoint request in this step
Sends(c) == calls[c].pc # "req" /\ calls'[c].pc = "req"

\* C21: the expiry stored by a successful obtain_token at time t is
\* t + 60 days - 1 day, and every authenticated request is sent with a token
\* obtained less than 60 days before
C21_RefreshedBeforeExpiry ==
    [][/\ ExpiryStored'
       /\ \A c \in Callers :
             Sends(c) =>
                /\ Truthy(calls'[c].bearer)
                /\ now - BornAt(calls'[c].bearer) < ExpiresIn]_vars

\* A request that passed the guard without a refresh, with a token obtained
\* fifty-eight days before (one day before its stored expiry)
C21_Witness ==
    \E c \in Callers :
        /\ calls[c].pc = "req"
        /\ calls[c].nauth = 0
        /\ calls[c].bearer = TokenAt(ExpiryMargin)
        /\ now = ExpiresIn - ExpiryMargin
        /\ token_expiry = ExpiresIn

(***************************************************************************)
(* Claims about concurrent token refreshes (ClientSpec)                    *)
(***************************************************************************)
\* The obtain_token of caller c returns in this step
RefreshReturns(c) ==
    /\ calls[c].pc = "auth"
    /\ \/ calls'[c].pc = "req"
       \/ calls'[c].pc = "done" /\ calls'[c].out = Return(Bool(TRUE))

\* The obtain_token of caller c ends in this step
RefreshEnds(c) == calls[c].pc = "auth" /\ calls'[c].pc # "auth"

\* C25: requests that find no valid token each run their own obtain_token;
\* a refresh that returns stores its token with the expiry of its time,
\* whatever another refresh stored before (the last writer wins), the request
\* it belongs to is sent with that token, and every authenticated request is
\* sent with the non-empty token stored at that time; the stored token
\* changes in no step but the end of a refresh
C25_RedundantRefreshes ==
    [][/\ \A c \in Callers :
             /\ RefreshReturns(c) =>
                   /\ Truthy(access_token')
                   /\ token_expiry' = now + ExpiresIn - ExpiryMargin
                   /\ calls'[c].pc = "req" => calls'[c].bearer = access_token'
             /\ (Sends(c) /\ calls'[c].require_auth) =>
                   /\ Truthy(calls'[c].bearer)
                   /\ calls'[c].bearer = access_token'
             /\ (calls[c].pc = "idle" /\ calls'[c].op = "request"
                 /\ calls'[c].require_auth /\ calls'[c].stale) =>
                   calls'[c].pc = "auth"
       /\ (\A c \in Callers : ~RefreshEnds(c)) =>
             access_token' = access_token /\ token_expiry' = token_expiry]_vars

\* Two requests refreshed the token at the same time and were sent with
\* different tokens; the token stored is that of the second
C25_Witness ==
    /\ \A c \in Callers : calls[c].pc = "req" /\ calls[c].nauth = 1
    /\ calls[1].bearer = Str("T1")
    /\ calls[2].bearer = Str("T2")
    /\ access_token = Str("T2")

(***************************************************************************)
(* Claims about the keys of a station's data (Spec)                        *)
(***************************************************************************)
\* Every key stored for a station is one of the six known keys
StationKeysKnown ==
    \A s \in DOMAIN data.stations :
        DOMAIN data.stations[s].data \subseteq StationKeys

\* The known keys a station fetch that ended with out has received
KnownKeysOf(out) ==
    IF out.kind = "return" /\ IsDict(out.val)
    THEN {j \in StationKeys : HasKey(out.val, j)}
    ELSE {}

\* The keys of a station after its fetch are those it had and the known
\* keys of the response
StationKeysGrowByResponse ==
    \A k \in DOMAIN tasks :
        (k \in DOMAIN tasks' /\ tasks[k].pc # "done" /\ tasks'[k].pc = "done") =>
            DOMAIN data'.stations[stations[k]].data
                = DOMAIN data.stations[stations[k]].data
                  \cup KnownKeysOf(tasks'[k].out)

\* C26: the keys stored for a station are among the six known station keys
\* in every state, and a station fetch adds exactly the known keys its
\* response has: an unknown key is not stored, a known key the response
\* lacks stays absent when it was absent
C26_KnownStationKeysOnly ==
    [][StationKeysKnown' /\ StationKeysGrowByResponse]_vars

\* The response {currentPower: 1} merged into an empty station S1, the
\* response {currentPower: 2, stationName: "Home"} into an empty station S2
C26_Witness ==
    /\ phase = "stations"
    /\ DOMAIN before.stations = {"S1", "S2"}
    /\ before.stations["S1"].data = EmptyMap
    /\ before.stations["S2"].data = EmptyMap
    /\ DOMAIN data.stations["S1"].data = {"currentPower"}
    /\ data.stations["S1"].data["currentPower"] = Num(1)
    /\ DOMAIN data.stations["S2"].data = {"currentPower"}
    /\ data.stations["S2"].data["currentPower"] = Num(2)

(***************************************************************************)
(* Claims about the two shapes within one device entry (MergeSpec)         *)
(***************************************************************************)
\* The batch response of merge_in had the one entry dev, for a device of the
\* cache, and was merged
OneEntryMerged ==
    /\ Merged
    /\ merge_in.kind = "devices"
    /\ Len(merge_in.payload) = 1
    /\ IsDict(merge_in.payload[1])
    /\ Truthy(PyOr(Get(merge_in.payload[1], "deviceSn"),
                   Get(merge_in.payload[1], "sn")))
    /\ PyOr(Get(merge_in.payload[1], "deviceSn"),
            Get(merge_in.payload[1], "sn")).v \in DOMAIN merge_in.cache
    /\ GetD(merge_in.payload[1], "dataList", EmptyList).t = "list"

\* The keys the dataList of the entry dev yields
DataListKeys(dev) ==
    LET items == GetD(dev, "dataList", EmptyList).v
    IN  {Get(items[i], "key").v :
            i \in {j \in DOMAIN items : Get(items[j], "key") # Null}}

\* The keys of the flat data object of the entry dev
FlatDataKeys(dev) ==
    IF IsDict(Get(dev, "data")) THEN DOMAIN Get(dev, "data").v ELSE {}

\* The key k is in both maps with one value, or in neither
SameAt(old, new, k) ==
    (k \in DOMAIN old <=> k \in DOMAIN new)
    /\ (k \in DOMAIN old => old[k] = new[k])

\* C27: when the dataList of an entry yields a key, the device's data gets
\* the keys of the dataList and nothing of the entry's flat data object; the
\* flat data object is merged only when the dataList yields no key
C27_ShapesExclusive ==
    OneEntryMerged =>
        LET dev == merge_in.payload[1]
            sn == PyOr(Get(dev, "deviceSn"), Get(dev, "sn")).v
            old == merge_in.cache[sn].data
            new == merge_out.val.once[sn].data
        IN  IF DataListKeys(dev) # {}
            THEN /\ DOMAIN new = DOMAIN old \cup DataListKeys(dev)
                 /\ \A k \in FlatDataKeys(dev) \ DataListKeys(dev) :
                       SameAt(old, new, k)
            ELSE /\ DOMAIN new = DOMAIN old \cup FlatDataKeys(dev)
                 /\ \A k \in FlatDataKeys(dev) : new[k] = Get(dev, "data").v[k]

\* An entry with both shapes merged into an empty device: the dataList's
\* soc is stored, the flat object's batteryPower is not
C27_Witness ==
    /\ OneEntryMerged
    /\ DataListKeys(merge_in.payload[1]) = {"soc"}
    /\ FlatDataKeys(merge_in.payload[1]) = {"batteryPower"}
    /\ merge_in.cache["D1"].data = EmptyMap
    /\ DOMAIN merge_out.val.once["D1"].data = {"soc"}

\* An entry whose dataList yields no key: its flat data object is merged
C27_WitnessFallback ==
    /\ OneEntryMerged
    /\ Len(GetD(merge_in.payload[1], "dataList", EmptyList).v) = 1
    /\ DataListKeys(merge_in.payload[1]) = {}
    /\ merge_out.val.once["D1"].data["soc"] = Num(9)

(***************************************************************************)
(* CycleLiveSpec: the coordinator of BatchesSpec when every network call   *)
(* is answered or fails in the end (async_timeout bounds each call) and    *)
(* the event loop runs every coroutine that can go on                      *)
(***************************************************************************)
CycleLiveSpec ==
    /\ Init
    /\ [][BatchesNext]_vars
    /\ WF_vars(\E k \in 1..MaxStations,
                  e \in NetEventsOf(SpecFailures,
                                    SpecTokenBodies \cup SpecStationBodies) :
                  StationStep(k, e))
    /\ WF_vars(StationsGathered)
    /\ WF_vars(\E e \in NetEventsOf(SpecFailures,
                                    SpecTokenBodies \cup BatchBodiesAt(batch_i)) :
                  BatchStep(e))

InCycle == phase \in {"stations", "devices"}

\* A fetch makes at most one token request and one endpoint request
OneCallEach(call) == call.nauth <= 1 /\ call.nsent <= 1

\* The calls of a cycle: one fetch per station, at most one per batch
CallsBounded ==
    discovery = "ok" =>
        /\ OneCallEach(main_call)
        /\ \A k \in DOMAIN tasks : OneCallEach(tasks[k])
        /\ Len(tasks) <= Len(stations)
        /\ NRequested <= NBatches

\* C28: a cycle that has begun is over in the end, having made at most one
\* fetch per station and per batch, each of one endpoint request and at
\* most one token request
C28_CycleTerminates ==
    /\ []CallsBounded
    /\ InCycle ~> ~InCycle

\* A cycle over eleven devices that ended after a failed first batch and a
\* second batch that refreshed the token
C28_Witness ==
    /\ CycleOver
    /\ phase = "ready"
    /\ Len(batch_outs) = 2
    /\ batch_outs[1].kind = "raise"
    /\ batch_outs[2].kind = "return"
    /\ fetch_failures > 0

(***************************************************************************)
(* Claims about the token state after a failed refresh (ClientSpec)        *)
(***************************************************************************)
\* The obtain_token of caller c raises in this step
RefreshFails(c) == RefreshEnds(c) /\ ~RefreshReturns(c)

TokenStateKept == access_token' = access_token /\ token_expiry' = token_expiry

\* C29: an obtain_token that fails, by a transport failure, a timeout or a
\* response without a token, leaves the stored token and expiry as they were
C29_FailedRefreshKeepsToken ==
    [][\A c \in Callers : RefreshFails(c) => TokenStateKept]_vars

\* The part of C29 that holds: the expiry is kept by every failed refresh,
\* and the token by one that fails without a response body
FailedRefreshKeepsExpiry ==
    [][\A c \in Callers :
          RefreshFails(c) =>
             /\ token_expiry' = token_expiry
             /\ calls'[c].net # "body" => access_token' = access_token]_vars

\* A token that was stored and not expired is gone after a refused refresh
C29_TokenLost ==
    /\ access_token = Null
    /\ now < token_expiry
    /\ \E c \in Callers :
          /\ calls[c].pc = "done"
          /\ calls[c].nauth = 1
          /\ calls[c].net = "body"

(***************************************************************************)
(* Claims about the token after a vendor auth code (ClientSpec)            *)
(***************************************************************************)
\* The request of caller c ends in this step with the DeyeCloudAuthError of
\* a vendor code 1001, 1002 or 1003
RefusedByCode(c) ==
    /\ calls[c].op = "request"
    /\ calls[c].pc = "req"
    /\ calls'[c].pc = "done"
    /\ calls'[c].net = "body"
    /\ IsAuthError(calls'[c].out)

\* Caller c begins an authenticated request in this step
BeginsAuthRequest(c) ==
    calls[c].pc = "idle" /\ calls'[c].op = "request" /\ calls'[c].require_auth

\* An authenticated request that begins while a token is stored and not
\* expired is sent with that token, without a token request
ValidTokenReused ==
    \A c \in Callers :
        (BeginsAuthRequest(c) /\ Truthy(access_token) /\ now < token_expiry) =>
            /\ calls'[c].pc = "req"
            /\ calls'[c].nauth = 0
            /\ calls'[c].bearer = access_token
            /\ TokenStateKept

RefusedKeepsToken == \A c \in Callers : RefusedByCode(c) => TokenStateKept

\* C30 as stated: a request refused with an auth code leaves the token and
\* expiry as they were, a request that begins before the expiry reuses the
\* token without a refresh, and the token state changes only in a call
\* that began when the token was missing or expired
C30_TokenReplacedOnlyWhenStale ==
    [][/\ RefusedKeepsToken
       /\ ValidTokenReused
       /\ TokenStateChanges =>
             \E c \in Callers : TokenStepOf(c) /\ calls[c].stale]_vars

\* C30 amended: as C30, but the token state also changes in the obtain_token
\* that test_connection calls whatever the token state
C30_TokenReplacedWhenStaleOrExplicit ==
    [][/\ RefusedKeepsToken
       /\ ValidTokenReused
       /\ TokenStateChanges =>
             \E c \in Callers :
                /\ TokenStepOf(c)
                /\ StaleAuthRequest(c) \/ calls[c].op = "test_connection"]_vars

\* A request was refused with an auth code and another is sent with the
\* same token, which is still the stored one, without a refresh
C30_Witness ==
    /\ calls[1].op = "request" /\ calls[1].pc = "done"
    /\ calls[1].net = "body" /\ IsAuthError(calls[1].out)
    /\ calls[1].nsent = 1
    /\ Truthy(calls[1].bearer)
    /\ calls[2].op = "request" /\ calls[2].pc = "req"
    /\ calls[2].nauth = 0 /\ ~calls[2].stale
    /\ calls[2].bearer = calls[1].bearer
    /\ access_token = calls[1].bearer
    /\ now < token_expiry

\* ------------------------------------------------------------------
\* The station id list after discovery

\* C31: after discovery, whatever the payload lists (two station rows with
\* the same id included), no station id is in the station id list twice and
\* the list has as many elements as cache.stations has keys.
C31_StationIdsUnique ==
    Discovered =>
        /\ \A i, j \in DOMAIN Topo.stations :
              Topo.stations[i] = Topo.stations[j] => i = j
        /\ Len(Topo.stations) = Cardinality(DOMAIN Topo.sdata)

\* Two station rows carried the id S1 (one as stationId, one as station_id):
\* the list holds S1 twice, the cache one entry, named by the later row
C31_StationListedTwice ==
    /\ Discovered
    /\ Topo.exc = "none"
    /\ Len(Rows) = 2
    /\ StationIdOf(Rows[1]) = Str("S1")
    /\ StationIdOf(Rows[2]) = Str("S1")
    /\ Rows[1] # Rows[2]
    /\ Topo.stations = <<"S1", "S1">>
    /\ DOMAIN Topo.sdata = {"S1"}
    /\ Topo.sdata["S1"].info.name = Null

\* With pairwise different station ids the list and the cache agree
StationIdsUniqueOfDistinctRows ==
    (Discovered /\ \A i, j \in DOMAIN RowsWithId(Rows) :
                      StationIdOf(RowsWithId(Rows)[i]) = StationIdOf(RowsWithId(Rows)[j])
                         => i = j) =>
        /\ \A i, j \in DOMAIN Topo.stations :
              Topo.stations[i] = Topo.stations[j] => i = j
        /\ Len(Topo.stations) = Cardinality(DOMAIN Topo.sdata)

(***************************************************************************)
(* TopologySpec: the coordinator's start-up and refresh cycles against a   *)
(* vendor whose station list is discover_in: rows without an id, a serial  *)
(* under several stations, two rows with one id, a row that ends discovery *)
(***************************************************************************)
TopologyInputs ==
    {List(<<Obj([stationName |-> Str("Lost"), deviceList |-> List(<<DeviceRow("D9")>>)]),
            StationRow("S1", "Home", <<DeviceRow("D1")>>),
            Obj([id |-> Str("S2"), name |-> Str("Barn"),
                 devices |-> List(<<Obj([sn |-> Str("D1")]), DeviceRow("D2")>>)])>>),
     List(<<StationRow("S1", "Home", <<DeviceRow("D1")>>),
            StationRow("S1", "Home", <<DeviceRow("D2"), DeviceRow("D1")>>),
            Obj([stationId |-> Str(""), deviceList |-> List(<<DeviceRow("D2")>>)])>>),
     List(<<StationRow("S1", "Home", <<DeviceRow("D1")>>),
            StationRow("S2", "Barn", <<DeviceRow("D1"), Null, DeviceRow("D2")>>)>>)}

TopologyInit ==
    /\ ClientIdle
    /\ CoordIdle
    /\ response_json = Null
    /\ request_out = Pending
    /\ token_json = Null
    /\ token_out = Pending
    /\ base_url_in = Null
    /\ base_url = Pending
    /\ discover_in \in TopologyInputs
    /\ topology = Pending
    /\ merge_in = Null
    /\ merge_out = Pending
    /\ flow_in = Null
    /\ flow_out = Pending

\* The answers of the vendor to the calls of discovery: a token answer to the
\* token request, its station list to the station list request
TopologyBodies ==
    IF main_call.pc = "auth" THEN SpecTokenBodies
    ELSE {Envelope(Obj([stationList |-> discover_in]))}

TopologyNext ==
    \/ StartUp
    \/ \E e \in NetEventsOf(SpecFailures, TopologyBodies) :
          DiscoveryStep(e)
    \/ \E k \in 1..MaxStations,
          e \in NetEventsOf(SpecFailures, SpecTokenBodies \cup SpecStationBodies) :
          StationStep(k, e)
    \/ StationsGathered
    \/ \E e \in NetEventsOf(SpecFailures, SpecTokenBodies \cup SpecDeviceBodies) :
          BatchStep(e)
    \/ ScheduledRefresh
    \/ ClockTick

TopologySpec == TopologyInit /\ [][TopologyNext]_vars

\* The id of the last station row with an id that lists the serial sn
LastStationOf(sn) ==
    LET rows == RowsWithId(Rows)
        last == CHOOSE i \in DOMAIN rows :
                   /\ sn \in SerialsUnder(rows[i])
                   /\ \A j \in DOMAIN rows : sn \in SerialsUnder(rows[j]) => j <= i
    IN  StationIdOf(rows[last]).v

\* The serials listed under a station row without an id and under no other
SerialsOfSkippedRows ==
    UNION {SerialsUnder(Rows[i]) :
              i \in {i \in DOMAIN Rows :
                        IsDict(Rows[i]) /\ ~Truthy(StationIdOf(Rows[i]))}}
    \ DiscoveredSerials

\* C32: at every moment, in and after discovery and in and after every
\* refresh cycle, each device of the cache has an info.stationId that is a
\* key of cache.stations and the elements of the device serial list are the
\* keys of cache.devices; once discovery has succeeded, the keys are the
\* serials listed under the station rows that have an id (a device listed
\* only under a row skipped for lack of an id is not in the cache) and each
\* device refers to the station under which its serial was listed last.
C32_DevicesBelongToStations ==
    /\ \A sn \in DOMAIN data.devices :
          data.devices[sn].info.stationId \in DOMAIN data.stations
    /\ {devices[i] : i \in DOMAIN devices} = DOMAIN data.devices
    /\ discovery = "ok" =>
          /\ DOMAIN data.devices = DiscoveredSerials
          /\ \A sn \in SerialsOfSkippedRows : sn \notin DOMAIN data.devices
          /\ \A sn \in DOMAIN data.devices :
                data.devices[sn].info.stationId = LastStationOf(sn)

\* A refresh cycle has merged a value into D1, which the payload lists under
\* S1 and then under S2, behind a row without an id that lists D9
C32_Witness ==
    /\ discovery = "ok"
    /\ phase = "ready"
    /\ Len(Rows) = 3
    /\ ~Truthy(StationIdOf(Rows[1]))
    /\ SerialsUnder(Rows[1]) = {"D9"}
    /\ "D1" \in SerialsUnder(Rows[2]) \cap SerialsUnder(Rows[3])
    /\ StationIdOf(Rows[2]) = Str("S1")
    /\ stations = <<"S1", "S2">>
    /\ devices = <<"D1", "D2">>
    /\ data.devices["D1"].info.stationId = "S2"
    /\ data.devices["D1"].data # EmptyMap
    /\ "D9" \notin DOMAIN data.devices

\* A discovery that a device row ended left what it had built by then
C32_WitnessInterrupted ==
    /\ discovery = "failed"
    /\ stations = <<"S1", "S2">>
    /\ devices = <<"D1">>
    /\ data.devices["D1"].info.stationId = "S2"


\* The same of the result of _discover_topology alone, for every payload of
\* DiscoverySpec
DiscoveryLinksDevices ==
    Discovered =>
        /\ \A sn \in DOMAIN Topo.ddata :
              Topo.ddata[sn].info.stationId \in DOMAIN Topo.sdata
        /\ {Topo.devices[i] : i \in DOMAIN Topo.devices} = DOMAIN Topo.ddata
        /\ Topo.exc = "none" =>
              /\ DOMAIN Topo.ddata = DiscoveredSerials
              /\ \A sn \in DOMAIN Topo.ddata :
                    Topo.ddata[sn].info.stationId = LastStationOf(sn)
=============================================================================
